---- MODULE Spec2Model ----
(***************************************************************************)
(* Model of the FCV data-analyst backend: the /api/chat orchestration run  *)
(* (backend/main.py, chat) and the LLM service helpers it relies on        *)
(* (backend/services/llm_service.py).                                      *)
(*                                                                         *)
(* Text is modelled as a sequence of one-character strings, so that        *)
(* strip(), split(), lower(), find()/rfind(), "in" and len() are computed  *)
(* the way the Python code computes them.  An Optional[str] is a record    *)
(* [isNone, v].                                                            *)
(***************************************************************************)
EXTENDS Integers, Sequences, FiniteSets, TLC

\* ------------------------------------------------------------------------
\* Bounds of the model (not program constants)
\* ------------------------------------------------------------------------
\* largest number of whitespace characters put around a generated text
MaxPad == 1

Q == "\""
\* the character U+0060 (grave accent), which a TLA+ string literal cannot hold
BackTick == "U+0060"

\* ------------------------------------------------------------------------
\* Python string primitives
\* ------------------------------------------------------------------------
None == [isNone |-> TRUE, v |-> <<>>]
Some(s) == [isNone |-> FALSE, v |-> s]

Rep(c, n) == [i \in 1..n |-> c]

Min(S) == CHOOSE x \in S : \A y \in S : x <= y
Max(S) == CHOOSE x \in S : \A y \in S : x >= y

\* characters str.strip() and str.split() treat as whitespace
IsSpace(c) == c \in {" ", "\n", "\t", "\r"}

\* sub in s
Contains(s, sub) ==
    \E i \in 0..(Len(s) - Len(sub)) : SubSeq(s, i + 1, i + Len(sub)) = sub

\* s.strip()
Strip(s) ==
    LET keep == {i \in 1..Len(s) : ~IsSpace(s[i])}
    IN  IF keep = {} THEN <<>> ELSE SubSeq(s, Min(keep), Max(keep))

\* len(s.split())
WordCount(s) ==
    Cardinality({i \in 1..Len(s) :
        ~IsSpace(s[i]) /\ (i = 1 \/ IsSpace(s[i - 1]))})

\* number of characters of s that are not whitespace
NonSpaceCount(s) == Cardinality({i \in 1..Len(s) : ~IsSpace(s[i])})

LowerChar(c) ==
    CASE c = "A" -> "a"
      [] c = "B" -> "b"
      [] c = "C" -> "c"
      [] c = "D" -> "d"
      [] c = "E" -> "e"
      [] c = "F" -> "f"
      [] c = "G" -> "g"
      [] c = "H" -> "h"
      [] c = "I" -> "i"
      [] c = "J" -> "j"
      [] c = "K" -> "k"
      [] c = "L" -> "l"
      [] c = "M" -> "m"
      [] c = "N" -> "n"
      [] c = "O" -> "o"
      [] c = "P" -> "p"
      [] c = "Q" -> "q"
      [] c = "R" -> "r"
      [] c = "S" -> "s"
      [] c = "T" -> "t"
      [] c = "U" -> "u"
      [] c = "V" -> "v"
      [] c = "W" -> "w"
      [] c = "X" -> "x"
      [] c = "Y" -> "y"
      [] c = "Z" -> "z"
      [] OTHER   -> c

\* s.lower()
Lower(s) == [i \in 1..Len(s) |-> LowerChar(s[i])]

\* s.find(c) and s.rfind(c) as 1-based positions, 0 when c does not occur
\* (Python's -1)
Find(s, c) ==
    LET hits == {i \in 1..Len(s) : s[i] = c}
    IN  IF hits = {} THEN 0 ELSE Min(hits)

RFind(s, c) ==
    LET hits == {i \in 1..Len(s) : s[i] = c}
    IN  IF hits = {} THEN 0 ELSE Max(hits)

\* ------------------------------------------------------------------------
\* json.loads on the grammar  value ::= object | array | string | integer
\* | true | false | null  (strings without escapes).  A decoded value is a
\* record [kind, text, keys, items].
\* ------------------------------------------------------------------------
JVal(kind, text, keys, items) ==
    [kind |-> kind, text |-> text, keys |-> keys, items |-> items]
JNull == JVal("null", <<>>, <<>>, <<>>)
JFail == [ok |-> FALSE, pos |-> 0, val |-> JNull]
JOk(v, p) == [ok |-> TRUE, pos |-> p, val |-> v]

IsJsonWs(c) == c \in {" ", "\n", "\t", "\r"}
IsDigit(c) == c \in {"0", "1", "2", "3", "4", "5", "6", "7", "8", "9"}

SkipWs(s, i) ==
    Min({j \in i..(Len(s) + 1) : j = Len(s) + 1 \/ ~IsJsonWs(s[j])})

StartsWithAt(s, i, lit) ==
    /\ i + Len(lit) - 1 <= Len(s)
    /\ SubSeq(s, i, i + Len(lit) - 1) = lit

ParseString(s, i) ==
    LET closes == {j \in (i + 1)..Len(s) : s[j] = Q}
    IN  IF closes = {} THEN JFail
        ELSE LET j == Min(closes)
             IN  JOk(JVal("string", SubSeq(s, i + 1, j - 1), <<>>, <<>>), j + 1)

ParseNumber(s, i) ==
    LET stop == Min({j \in i..(Len(s) + 1) : j = Len(s) + 1 \/ ~IsDigit(s[j])})
        e    == IF s[i] = "0" THEN i + 1 ELSE stop
    IN  JOk(JVal("number", SubSeq(s, i, e - 1), <<>>, <<>>), e)

RECURSIVE ParseValue(_, _), ArrayElems(_, _, _), ObjectMembers(_, _, _, _)

\* the value starting at position i (whitespace already skipped)
ParseValue(s, i) ==
    IF i > Len(s) THEN JFail
    ELSE IF s[i] = "{" THEN
        LET j == SkipWs(s, i + 1)
        IN  IF j <= Len(s) /\ s[j] = "}"
            THEN JOk(JVal("object", <<>>, <<>>, <<>>), j + 1)
            ELSE ObjectMembers(s, j, <<>>, <<>>)
    ELSE IF s[i] = "[" THEN
        LET j == SkipWs(s, i + 1)
        IN  IF j <= Len(s) /\ s[j] = "]"
            THEN JOk(JVal("array", <<>>, <<>>, <<>>), j + 1)
            ELSE ArrayElems(s, j, <<>>)
    ELSE IF s[i] = Q THEN ParseString(s, i)
    ELSE IF IsDigit(s[i]) THEN ParseNumber(s, i)
    ELSE IF StartsWithAt(s, i, <<"n", "u", "l", "l">>)
        THEN JOk(JNull, i + 4)
    ELSE IF StartsWithAt(s, i, <<"t", "r", "u", "e">>)
        THEN JOk(JVal("true", <<>>, <<>>, <<>>), i + 4)
    ELSE IF StartsWithAt(s, i, <<"f", "a", "l", "s", "e">>)
        THEN JOk(JVal("false", <<>>, <<>>, <<>>), i + 5)
    ELSE JFail

\* elements of an array, i at the first character of the next element
ArrayElems(s, i, acc) ==
    LET r == ParseValue(s, i)
    IN  IF ~r.ok THEN JFail
        ELSE LET j == SkipWs(s, r.pos)
                 items == Append(acc, r.val)
             IN  IF j > Len(s) THEN JFail
                 ELSE IF s[j] = "]"
                     THEN JOk(JVal("array", <<>>, <<>>, items), j + 1)
                 ELSE IF s[j] = ","
                     THEN ArrayElems(s, SkipWs(s, j + 1), items)
                 ELSE JFail

\* members of an object, i at the opening quote of the next key
ObjectMembers(s, i, keys, vals) ==
    IF i > Len(s) \/ s[i] # Q THEN JFail
    ELSE LET k == ParseString(s, i)
         IN  IF ~k.ok THEN JFail
             ELSE LET c == SkipWs(s, k.pos)
                  IN  IF c > Len(s) \/ s[c] # ":" THEN JFail
                      ELSE LET r == ParseValue(s, SkipWs(s, c + 1))
                           IN  IF ~r.ok THEN JFail
                               ELSE LET j  == SkipWs(s, r.pos)
                                        ks == Append(keys, k.val.text)
                                        vs == Append(vals, r.val)
                                    IN  IF j > Len(s) THEN JFail
                                        ELSE IF s[j] = "}"
                                            THEN JOk(JVal("object", <<>>, ks, vs), j + 1)
                                        ELSE IF s[j] = ","
                                            THEN ObjectMembers(s, SkipWs(s, j + 1), ks, vs)
                                        ELSE JFail

\* json.loads(s): ok = FALSE stands for json.JSONDecodeError
JsonLoads(s) ==
    LET r == ParseValue(s, SkipWs(s, 1))
    IN  IF r.ok /\ SkipWs(s, r.pos) = Len(s) + 1 THEN r ELSE JFail

\* d.get(key) on a decoded object: the last member with that key, else None
ObjGet(d, key) ==
    LET hits == {k \in 1..Len(d.keys) : d.keys[k] = key}
    IN  IF hits = {} THEN JNull ELSE d.items[Max(hits)]

\* bool(v) of a decoded value
Truthy(v) ==
    CASE v.kind = "object" -> Len(v.keys) > 0
      [] v.kind = "array"  -> Len(v.items) > 0
      [] v.kind = "string" -> Len(v.text) > 0
      [] v.kind = "number" -> v.text # <<"0">>
      [] v.kind = "true"   -> TRUE
      [] OTHER             -> FALSE

\* ------------------------------------------------------------------------
\* Literals of the program
\* ------------------------------------------------------------------------

OUT_OF_REMIT_MESSAGE ==
    << "I", " ", "a", "m", " ", "d", "e", "s", "i", "g", "n", "e", "d", " ",
       "t", "o", " ", "a", "d", "d", "r", "e", "s", "s", " ", "F", "C", "V",
       "-", "f", "o", "c", "u", "s", "e", "d", " ", "d", "a", "t", "a", " ",
       "q", "u", "e", "r", "i", "e", "s", ".", " ", "Y", "o", "u", "r", " ",
       "q", "u", "e", "s", "t", "i", "o", "n", " ", "i", "s", " ", "b", "e",
       "y", "o", "n", "d", " ", "m", "y", " ", "r", "e", "m", "i", "t", ".",
       " ", "P", "l", "e", "a", "s", "e", " ", "r", "e", "f", "o", "r", "m",
       "u", "l", "a", "t", "e", " ", "i", "t", " ", "a", "s", " ", "a", " ",
       "d", "a", "t", "a", "-", "f", "o", "c", "u", "s", "e", "d", " ", "q",
       "u", "e", "s", "t", "i", "o", "n", " ", "I", " ", "c", "a", "n", " ",
       "h", "e", "l", "p", " ", "w", "i", "t", "h", " ", "(", "e", ".", "g",
       ".", " ", "t", "r", "e", "n", "d", "s", ",", " ", "c", "o", "u", "n",
       "t", "s", ",", " ", "m", "a", "p", "s", ",", " ", "r", "a", "n", "k",
       "i", "n", "g", "s", " ", "f", "r", "o", "m", " ", "t", "h", "e", " ",
       "d", "a", "t", "a", "s", "e", "t", ")", "." >>

narrative_keywords ==
    { << "t", "r", "e", "n", "d" >>,
      << "c", "h", "a", "n", "g", "e" >>,
      << "p", "a", "t", "t", "e", "r", "n" >>,
      << "o", "v", "e", "r", " ", "t", "i", "m", "e" >>,
      << "c", "o", "m", "p", "a", "r", "e" >>,
      << "c", "o", "m", "p", "a", "r", "i", "s", "o", "n" >>,
      << "i", "n", "c", "r", "e", "a", "s", "e" >>,
      << "d", "e", "c", "r", "e", "a", "s", "e" >>,
      << "e", "v", "o", "l", "u", "t", "i", "o", "n" >>,
      << "s", "h", "i", "f", "t" >>,
      << "r", "e", "g", "i", "o", "n", "a", "l" >>,
      << "g", "e", "o", "g", "r", "a", "p", "h", "i", "c" >>,
      << "a", "n", "a", "l", "y", "s", "i", "s" >>,
      << "a", "n", "a", "l", "y", "z", "e" >>,
      << "a", "s", "s", "e", "s", "s", "m", "e", "n", "t" >>,
      << "a", "s", "s", "e", "s", "s" >>,
      << "s", "u", "m", "m", "a", "r", "y" >>,
      << "s", "u", "m", "m", "a", "r", "i", "z", "e" >>,
      << "o", "v", "e", "r", "v", "i", "e", "w" >>,
      << "s", "i", "t", "u", "a", "t", "i", "o", "n" >>,
      << "d", "e", "v", "e", "l", "o", "p", "m", "e", "n", "t" >>,
      << "d", "e", "v", "e", "l", "o", "p", "m", "e", "n", "t", "s" >>,
      << "s", "e", "c", "u", "r", "i", "t", "y" >>,
      << "c", "o", "n", "f", "l", "i", "c", "t" >>,
      << "v", "i", "o", "l", "e", "n", "c", "e" >>,
      << "f", "a", "t", "a", "l", "i", "t", "i", "e", "s" >>,
      << "e", "v", "e", "n", "t", "s" >>,
      << "w", "h", "a", "t", " ", "h", "a", "p", "p", "e", "n", "e", "d" >> }

POPULATION_KEYWORDS ==
    { << "p", "o", "p", "u", "l", "a", "t", "i", "o", "n" >>,
      << "p", "e", "r", " ", "c", "a", "p", "i", "t", "a" >>,
      << "p", "e", "r", "-", "c", "a", "p", "i", "t", "a" >>,
      << "p", "e", "r", " ", "1", "0", "0", "0" >>,
      << "p", "e", "r", " ", "1", "0", "k" >>,
      << "p", "e", "r", " ", "1", "0", "0", "0", "0" >>,
      << "p", "e", "r", " ", "1", "0", "0", "k" >>,
      << "p", "e", "r", " ", "1", "0", "0", "0", "0", "0" >>,
      << "p", "e", "r", " ", "m", "i", "l", "l", "i", "o", "n" >> }

FencePython ==
    << BackTick, BackTick, BackTick, "p", "y", "t", "h", "o", "n" >>

Fence ==
    << BackTick, BackTick, BackTick >>

NotDefinedText ==
    << "i", "s", " ", "n", "o", "t", " ", "d", "e", "f", "i", "n", "e", "d" >>

ExecuteSqlText ==
    << "e", "x", "e", "c", "u", "t", "e", "_", "s", "q", "l" >>

ValidationFailedPrefix ==
    << "V", "a", "l", "i", "d", "a", "t", "i", "o", "n", " ", "f", "a", "i",
       "l", "e", "d", ":", " " >>

KeyGroupby ==
    << "g", "r", "o", "u", "p", "b", "y" >>

RetryUserMessage ==
    << "P", "r", "o", "v", "i", "d", "e", " ", "c", "o", "r", "r", "e", "c",
       "t", "e", "d", " ", "P", "y", "t", "h", "o", "n", " ", "c", "o", "d",
       "e", " ", "o", "n", "l", "y", "." >>

NoneText ==
    << "N", "o", "n", "e" >>

\* ------------------------------------------------------------------------
\* Inputs: request messages, planner replies, execution error texts
\* ------------------------------------------------------------------------

MsgHello ==
    << "h", "e", "l", "l", "o" >>

MsgTrend ==
    << "T", "R", "E", "N", "D" >>

MsgPerCapita ==
    << "s", "h", "i", "f", "t", " ", "P", "e", "r", " ", "C", "a", "p",
       "i", "t", "a" >>

MsgSixWords ==
    << "a", " ", "b", " ", "c", " ", "d", " ", "e", " ", "f" >>

MsgFiveWords ==
    << "a", " ", "b", " ", "c", " ", "d", " ", "e" >>

ErrNameNotDefined ==
    << "n", "a", "m", "e", " ", "'", "q", "'", " ", "i", "s", " ", "n", "o",
       "t", " ", "d", "e", "f", "i", "n", "e", "d" >>

ErrExecuteSql ==
    << "n", "o", " ", "e", "x", "e", "c", "u", "t", "e", "_", "s", "q", "l",
       " ", "h", "e", "r", "e" >>

ErrBoom ==
    << "d", "i", "v", "i", "s", "i", "o", "n", " ", "b", "y", " ", "z", "e",
       "r", "o" >>

PlanGroupbyList ==
    << "{", Q, "g", "r", "o", "u", "p", "b", "y", Q, ":", "[", Q, "c", "o",
       "u", "n", "t", "r", "y", Q, "]", "}" >>

PlanWrapped ==
    << "o", "k", " ", "{", Q, "g", "r", "o", "u", "p", "b", "y", Q, ":", "n",
       "u", "l", "l", "}", " ", "." >>

PlanEmptyObject ==
    << "{", "}" >>

PlanNestedGroupby ==
    << "{", Q, "g", "r", "o", "u", "p", "b", "y", Q, ":", "[", "[", Q, "c",
       "o", "u", "n", "t", "r", "y", Q, "]", "]", "}" >>

PlanArray ==
    << "[", "1", "]" >>

PlanNull ==
    << "n", "u", "l", "l" >>

PlanProse ==
    << "o", "o", "p", "s" >>

PlanBadBraces ==
    << "{", "o", "o", "p", "s", "}" >>

PlanReversedBraces ==
    << "}", "{" >>

\* ------------------------------------------------------------------------
\* Thresholds of the program
\* ------------------------------------------------------------------------
\* main.py: a reply without code shorter than this is replaced
MinRefusalLen == 20
\* main.py: the stripped output must be longer than this to be narrated
NarrativeMinOutput == 10
\* llm_service.py: a prompt with more words than this is narrative-worthy
NarrativeWordLimit == 5
\* llm_service.py: characters of the output quoted in the narrative prompt
NarrativeOutputLimit == 3000

\* ------------------------------------------------------------------------
\* LLMService helpers
\* ------------------------------------------------------------------------
KnownProviders == {"openai", "anthropic", "azure"}
Providers == KnownProviders \cup {"other"}

\* LLMService.needs_narrative(prompt)
needs_narrative(prompt) ==
    \/ WordCount(prompt) > NarrativeWordLimit
    \/ \E k \in narrative_keywords : Contains(Lower(prompt), k)

\* Data360Service.needs_population_data(user_message)
needs_population_data(user_message) ==
    \E k \in POPULATION_KEYWORDS : Contains(Lower(user_message), k)

NoSpec == [isNone |-> TRUE, v |-> JNull]

\* LLMService.get_query_spec, from the planner's raw reply on: the value
\* returned, or the exception that leaves the function.  Only
\* json.JSONDecodeError, KeyError and TypeError are caught.
ParseQuerySpec(raw) ==
    IF raw.isNone
    THEN [raised |-> "AttributeError", spec |-> NoSpec]
    ELSE LET s     == Strip(raw.v)
             start == Find(s, "{")
             end   == RFind(s, "}")
             r     == IF start # 0 /\ end # 0 /\ end > start
                      THEN JsonLoads(SubSeq(s, start, end))
                      ELSE JsonLoads(s)
         IN  IF r.ok
             THEN [raised |-> "",
                   spec |-> [isNone |-> r.val.kind = "null", v |-> r.val]]
             ELSE [raised |-> "", spec |-> NoSpec]

\* bool(query_spec)
SpecTruthy(spec) == ~spec.isNone /\ Truthy(spec.v)

\* main.py, the profiled-column expansion: the exception raised while the
\* groupby field of the spec is read and merged, "" when none is raised
ProfileError(spec) ==
    IF ~SpecTruthy(spec) THEN ""
    ELSE IF spec.v.kind # "object" THEN "AttributeError"
    ELSE LET g == ObjGet(spec.v, KeyGroupby)
         IN  IF g.kind = "array"
                /\ \E i \in 1..Len(g.items) :
                       g.items[i].kind \in {"array", "object"}
             THEN "TypeError"
             ELSE ""

\* one turn of a conversation: {"role": role, "content": content}
Turn(role, content) == [role |-> role, content |-> content]

\* LLMService.get_analysis_code: the request sent to the provider, that is
\* the turns of conversation_history, then the user message with the spec
\* embedded in it when there is one
GenerationRequest(user_message, conversation_history, spec) ==
    [user_message |-> user_message,
     conversation_history |-> conversation_history,
     spec |-> IF SpecTruthy(spec) THEN spec ELSE NoSpec]

\* main.py 406: the user turn of the retry, around the validation error
RetryTurnPrefix ==
    << "T", "h", "e", " ", "g", "e", "n", "e", "r", "a", "t", "e", "d", " ",
       "c", "o", "d", "e", " ", "f", "a", "i", "l", "e", "d", " ", "v", "a",
       "l", "i", "d", "a", "t", "i", "o", "n", ":", " " >>

RetryTurnSuffix ==
    << " ", "P", "r", "o", "v", "i", "d", "e", " ", "c", "o", "r", "r", "e",
       "c", "t", "e", "d", " ", "P", "y", "t", "h", "o", "n", " ", "c", "o",
       "d", "e", " ", "o", "n", "l", "y", ",", " ", "u", "s", "i", "n", "g",
       " ", "a", "l", "l", "o", "w", "e", "d", " ", "c", "o", "l", "u", "m",
       "n", "s", " ", "a", "n", "d", " ", "n", "o", " ", "f", "o", "r", "b",
       "i", "d", "d", "e", "n", " ", "o", "p", "e", "r", "a", "t", "i", "o",
       "n", "s", " ", "(", "n", "o", " ", "s", "u", "b", "p", "r", "o", "c",
       "e", "s", "s", ",", " ", "o", "s", ".", "s", "y", "s", "t", "e", "m",
       ",", " ", "e", "v", "a", "l", ",", " ", "e", "x", "e", "c", ",", " ",
       "n", "e", "t", "w", "o", "r", "k", ")", "." >>

\* request.history of the checked runs: empty, or one earlier user turn
Histories == {<<>>, <<Turn("user", Some(<<"h", "i">>))>>}

Take(s, n) == SubSeq(s, 1, IF Len(s) < n THEN Len(s) ELSE n)

\* LLMService.generate_narrative: the parts interpolated into the prompt
NarrativePrompt(user_question, analysis_output, analysis_data) ==
    [user_question   |-> user_question,
     analysis_output |-> Take(analysis_output, NarrativeOutputLimit),
     key_data_points |-> IF ~analysis_data.isNone /\ Len(analysis_data.v) > 0
                         THEN analysis_data ELSE None]

\* NarrativeRequest with the generated reply put in front of the output
NarrativeRequest_WithReply(message_, llm_response_, out_output_, execution_result_) ==
    NarrativePrompt(message_, llm_response_.v \o out_output_.v,
                    execution_result_.summary_data)

\* chat: the narrative request issued for a run with this request message,
\* generated reply, normalised output and execution result
NarrativeRequest(message_, llm_response_, out_output_, execution_result_) ==
    NarrativePrompt(message_, out_output_.v, execution_result_.summary_data)

\* ------------------------------------------------------------------------
\* CodeExecutorService (contract of section 6 of the specification)
\* ------------------------------------------------------------------------
\* first position >= from where sub occurs in s, 0 if none
FindSub(s, sub, from) ==
    LET hits == {i \in from..(Len(s) - Len(sub) + 1) :
                    SubSeq(s, i, i + Len(sub) - 1) = sub}
    IN  IF hits = {} THEN 0 ELSE Min(hits)

\* extractCode(rawText) -> code | none: the text of the first fenced block
ExtractCode(raw) ==
    IF raw.isNone THEN None
    ELSE LET py    == FindSub(raw.v, FencePython, 1)
             open  == IF py # 0 THEN py ELSE FindSub(raw.v, Fence, 1)
             first == IF py # 0 THEN open + Len(FencePython)
                      ELSE open + Len(Fence)
             close == IF open = 0 THEN 0 ELSE FindSub(raw.v, Fence, first)
         IN  IF open = 0 \/ close = 0 THEN None
             ELSE Some(Strip(SubSeq(raw.v, first, close - 1)))

\* validateCode(code, schema) -> (valid, errorDetail | none)
ValidationResults ==
    { [valid |-> TRUE, error |-> None],
      [valid |-> FALSE, error |-> Some(<<"c", "o", "l">>)],
      [valid |-> FALSE, error |-> Some(<<"o", "p">>)] }

ExecResult(success, output, error, summary) ==
    [success |-> success, output |-> output, error |-> error,
     summary_data |-> summary]

\* executeSafely(code, primaryDataset, auxiliaryDatasets)
ExecResults ==
    { ExecResult(TRUE, Some(o), None, None) :
        o \in { <<>>, Rep("x", NarrativeMinOutput),
                Rep(" ", MaxPad) \o Rep("x", NarrativeMinOutput),
                MsgSixWords } }
    \cup { ExecResult(TRUE, Some(Rep("x", NarrativeMinOutput + 1)), None, s) :
        s \in {None, Some(<<"s">>)} }
    \cup { ExecResult(TRUE, None, None, None) }
    \cup { ExecResult(FALSE, Some(<<>>), e, None) :
        e \in { None, Some(<<>>), Some(ErrNameNotDefined),
                Some(ErrExecuteSql), Some(ErrBoom) } }
    \cup { ExecResult(FALSE, Some(Rep("x", NarrativeMinOutput + 1)),
                      Some(ErrBoom), None) }

\* ------------------------------------------------------------------------
\* Inputs of a run
\* ------------------------------------------------------------------------
Messages == {MsgHello, MsgTrend, MsgPerCapita, MsgSixWords, MsgFiveWords}

\* raw replies of the planner
PlannerReplies ==
    { PlanGroupbyList, PlanWrapped, PlanEmptyObject, PlanNestedGroupby,
      PlanArray, PlanNull, PlanProse, PlanBadBraces, PlanReversedBraces }

Pad(n) == Rep(" ", n)

\* generated replies without a code block
NoCodeReplies ==
    { Pad(l) \o Rep("x", n) \o Pad(r) :
        l \in 0..MaxPad, r \in 0..MaxPad,
        n \in {0, MinRefusalLen - 1, MinRefusalLen} }

CodeReply(commentary, fence, body) ==
    commentary \o fence \o <<"\n">> \o body \o <<"\n">> \o Fence

\* generated replies with a code block
CodeReplies ==
    { CodeReply(<<>>, FencePython, <<"p">>),
      CodeReply(<<"H", "i", " ">>, FencePython, <<"p">>),
      CodeReply(<<"H", "i", " ">>, Fence, <<"q">>),
      CodeReply(<<>>, FencePython, <<"q">>) }

\* what a completion call can return for a provider: the anthropic client
\* always builds a string, the openai and azure clients pass on
\* message.content, which may be None
Completions(p, texts) ==
    {Some(t) : t \in texts} \cup (IF p = "anthropic" THEN {} ELSE {None})

\* most countries the fallback country list holds in a checked run
MaxCountries == 2

\* what happens to one country of the list: whether _country_to_iso3 gives
\* a code, and what _fetch_population_for_iso3 does for that code ("rows",
\* "nulls": rows without a usable year or value, "empty", "raise": the
\* request fails)
Candidates == [resolved : BOOLEAN, fetch : {"rows", "nulls", "empty", "raise"}]
CandidateLists == UNION { [1..n -> Candidates] : n \in 0..MaxCountries }

\* Data360Service.build_population_for_acled(df) as chat calls it (no
\* requested_countries): whether it raised, whether df_pop is empty, and
\* the warnings in order
build_population_for_acled(hasCountry, countries) ==
    IF ~hasCountry
    THEN [raised |-> FALSE, empty |-> TRUE, warnings |-> <<"no_country">>]
    ELSE LET resolved == {i \in DOMAIN countries : countries[i].resolved}
             unresolved == DOMAIN countries \ resolved
             no_data == {i \in resolved : countries[i].fetch = "empty"}
             pop_frames == {i \in resolved :
                               countries[i].fetch \in {"rows", "nulls"}}
             warnings ==
                 <<"fallback">>
                 \o (IF unresolved # {} THEN <<"unresolved", "tip">> ELSE <<>>)
                 \o (IF no_data # {} THEN <<"no_data">> ELSE <<>>)
         IN  IF \E i \in resolved : countries[i].fetch = "raise"
             THEN [raised |-> TRUE, empty |-> TRUE, warnings |-> <<>>]
             ELSE [raised |-> FALSE,
                   empty |-> \A i \in pop_frames : countries[i].fetch = "nulls",
                   warnings |-> warnings]

\* results of the builder over the datasets of a checked run
PopulationResults ==
    { build_population_for_acled(h, c) : h \in BOOLEAN, c \in CandidateLists }

\* ------------------------------------------------------------------------
\* State of the Data360 service (data360_service.py)
\* ------------------------------------------------------------------------
VARIABLES
    cache,       \* Data360Service._cache: key -> stored table
    fetch,       \* the calls of _fetch_indicator_rows in progress, by caller
    stored,      \* per key, the rows of the fetch that first stored it
    nextId,      \* identity given to the next table object created
    quota,       \* full pages the server still holds (-1: no limit)
    fetches,     \* calls of _fetch_indicator_rows started so far
    resolution,  \* one call of _country_to_iso3
    norm         \* labels handed to _normalize_country_name

svcVars == <<cache, fetch, stored, nextId, quota, fetches, resolution, norm>>

\* the service before any call
ServiceIdle ==
    /\ cache = <<>>
    /\ fetch = <<>>
    /\ stored = <<>>
    /\ nextId = 1
    /\ quota = -1
    /\ fetches = 0
    /\ resolution = [phase |-> "idle"]
    /\ norm = [phase |-> "idle"]

\* ------------------------------------------------------------------------
\* State of the other services of the backend
\* ------------------------------------------------------------------------
VARIABLES
    build,        \* one call of a dataset builder of Data360Service
    sessions,     \* DataLoader.sessions: session id -> dataset
    connections,  \* SQLService.connections: session id -> connection
    lastRequest,  \* the last request to a session endpoint and its arguments
    llm,          \* the fields of LLMService that configure() sets
    profiling,    \* one call of the column profiling of chat()
    run           \* a chat() run on a session, beside the session endpoints

appVars == <<build, sessions, connections, lastRequest, llm, profiling, run>>

\* LLMService.__init__ (llm_service.py 31-36) on a host with these optional
\* packages and these keys in its environment; configured and completion
\* are the outcomes of the last configure() and of the last completion call
LLMService(packages, env) ==
    [provider |-> "anthropic", api_key |-> FALSE, client |-> "none",
     packages |-> packages, env |-> env,
     configured |-> "none", completion |-> "none"]

\* no builder call, no session, no connection, no configuration call
AppIdle ==
    /\ build = [phase |-> "idle"]
    /\ sessions = <<>>
    /\ connections = <<>>
    /\ lastRequest = [op |-> "none"]
    /\ llm = LLMService({}, {})
    /\ profiling = [phase |-> "idle"]
    /\ run = [pc |-> "idle"]

\* ------------------------------------------------------------------------
\* The orchestration run: chat() in main.py
\* ------------------------------------------------------------------------
VARIABLES
    pc,                  \* position of the run inside chat()
    history,             \* request.history
    inflight,            \* the generation request awaiting its reply, if any
    provider,            \* llm_service.provider
    message,             \* request.message
    hasData,             \* data_loader.get_data(session_id) is not None
    df_pop,              \* "empty" or "loaded"
    population_warnings, \* the warnings of the enrichment, in order
    query_spec,          \* result of get_query_spec
    schema,              \* the parts of the schema snapshot chat() attaches
    llm_response,        \* last reply of get_analysis_code
    code,                \* last result of extract_code
    validations,         \* results of validate_code, in order
    plan_call,           \* outcome of the planner's completion call
    execution_result,    \* result of execute_safely
    out_output, out_success, out_error,
    narrative,
    resp,                \* what the caller receives
    calls,               \* number of calls of each capability in this run
    genReqs,             \* generation requests sent, in order
    narrReqs,            \* narrative requests sent, in order
    accepted,            \* codes the validator accepted in this run
    execCode             \* code handed to execute_safely

chatVars == <<pc, history, inflight, provider, message, hasData, df_pop, population_warnings,
              query_spec, schema, llm_response, code, validations,
              plan_call, execution_result, out_output, out_success, out_error,
              narrative, resp, calls, genReqs, narrReqs, accepted, execCode>>

vars == <<chatVars, svcVars, appVars>>

\* f"{x}" of an Optional[str]
Fmt(x) == IF x.isNone THEN NoneText ELSE x.v

\* bool(x) of an Optional[str]
StrTruthy(x) == ~x.isNone /\ Len(x.v) > 0

NoExecution == ExecResult(FALSE, None, None, None)
NoCall == [raised |-> FALSE, reply |-> None]

\* valid, validation_error: the last result of validate_code
valid == validations[Len(validations)].valid
validation_error == validations[Len(validations)].error

NoResp ==
    [status |-> 0, detail |-> "", response |-> None, code |-> None,
     execution_result |-> None, execution_success |-> FALSE,
     error |-> None, summary_data |-> None, narrative |-> None]

\* ChatResponse(...) returned with HTTP 200; the response field is a
\* required str (models.py), so a None reply cannot be returned
ChatResponse(response, code_, result, success, error, summary, narr) ==
    IF response.isNone
    THEN [NoResp EXCEPT !.status = 500, !.detail = "ValidationError"]
    ELSE [status |-> 200, detail |-> "", response |-> response,
          code |-> code_, execution_result |-> result,
          execution_success |-> success, error |-> error,
          summary_data |-> summary, narrative |-> narr]

\* except Exception: raise HTTPException(status_code=500, ...)
ErrorResponse(detail) == [NoResp EXCEPT !.status = 500, !.detail = detail]

Init ==
    /\ pc = "start"
    /\ history \in Histories
    /\ inflight = <<>>
    /\ provider \in Providers
    /\ message \in Messages
    /\ hasData \in BOOLEAN
    /\ df_pop = "empty"
    /\ population_warnings = <<>>
    /\ query_spec = NoSpec
    /\ schema = [aux_dataframes |-> FALSE, aux_warnings |-> FALSE]
    /\ llm_response = None
    /\ code = None
    /\ validations = <<>>
    /\ plan_call = NoCall
    /\ execution_result = NoExecution
    /\ out_output = None
    /\ out_success = FALSE
    /\ out_error = None
    /\ narrative = None
    /\ resp = NoResp
    /\ calls = [plan |-> 0, enrich |-> 0, profile |-> 0, gen |-> 0, val |-> 0,
                exec |-> 0, narr |-> 0]
    /\ genReqs = <<>>
    /\ narrReqs = <<>>
    /\ accepted = {}
    /\ execCode = None
    /\ ServiceIdle
    /\ AppIdle

\* the run ends with the response r
Finish(r) == pc' = "done" /\ resp' = r

Called(c) == calls' = [calls EXCEPT ![c] = @ + 1]

\* outcome of one completion call: an exception or a reply
CallOutcomes(texts) ==
    {[raised |-> TRUE, reply |-> None]}
    \cup {[raised |-> FALSE, reply |-> r] : r \in Completions(provider, texts)}

\* Start, going to the planner without the enrichment step
Start_SkipEnrich ==
    /\ pc = "start"
    /\ IF hasData
       THEN pc' = "plan" /\ resp' = resp
       ELSE Finish(ErrorResponse("HTTPException 404"))
    /\ UNCHANGED <<appVars, svcVars, history, inflight, provider, message, hasData, df_pop,
                   population_warnings,
                   query_spec, schema, llm_response, code, validations, plan_call,
                   execution_result, out_output, out_success, out_error,
                   narrative, calls, genReqs, narrReqs, accepted, execCode>>

\* main.py 331-339: read the session's dataset
Start ==
    /\ pc = "start"
    /\ IF hasData
       THEN pc' = "enrich" /\ resp' = resp
       ELSE Finish(ErrorResponse("HTTPException 404"))
    /\ UNCHANGED <<appVars, svcVars, history, inflight, provider, message, hasData, df_pop, population_warnings,
                   query_spec, schema, llm_response, code, validations, plan_call,
                   execution_result, out_output, out_success, out_error,
                   narrative, calls, genReqs, narrReqs, accepted, execCode>>

\* Enrich without the try/except of main.py 345-350
Enrich_Fatal ==
    /\ pc = "enrich"
    /\ IF needs_population_data(message)
       THEN \E r \in PopulationResults :
              /\ df_pop' = IF r.raised \/ r.empty THEN "empty" ELSE "loaded"
              /\ population_warnings' =
                     IF r.raised THEN <<"failed">> ELSE r.warnings
              /\ Called("enrich")
              /\ IF r.raised
                 THEN Finish(ErrorResponse("Exception"))
                 ELSE pc' = "plan" /\ resp' = resp
       ELSE /\ UNCHANGED <<df_pop, population_warnings, calls, resp>>
            /\ pc' = "plan"
    /\ UNCHANGED <<appVars, svcVars, history, inflight, provider, message, hasData, query_spec, schema,
                   llm_response, code, validations, plan_call, execution_result,
                   out_output, out_success, out_error, narrative,
                   genReqs, narrReqs, accepted, execCode>>

\* main.py 341-350: optional population enrichment
Enrich ==
    /\ pc = "enrich"
    /\ IF needs_population_data(message)
       THEN \E r \in PopulationResults :
              /\ df_pop' = IF r.raised \/ r.empty THEN "empty" ELSE "loaded"
              /\ population_warnings' =
                     IF r.raised THEN <<"failed">> ELSE r.warnings
              /\ Called("enrich")
       ELSE UNCHANGED <<df_pop, population_warnings, calls>>
    /\ pc' = "plan"
    /\ UNCHANGED <<appVars, svcVars, history, inflight, provider, message, hasData, query_spec, schema,
                   llm_response, code, validations, plan_call, execution_result,
                   out_output, out_success, out_error, narrative, resp,
                   genReqs, narrReqs, accepted, execCode>>

\* get_query_spec on each raw reply the planner's completion call can give
PlannerResults ==
    [raw \in {None} \cup {Some(t) : t \in PlannerReplies} |->
        ParseQuerySpec(raw)]

\* main.py 353 with llm_service.py 167-188: the planning step
Plan ==
    /\ pc = "plan"
    /\ Called("plan")
    /\ IF provider \notin KnownProviders
       THEN /\ query_spec' = NoSpec
            /\ plan_call' = plan_call
            /\ pc' = "profile"
            /\ resp' = resp
       ELSE \E c \in CallOutcomes(PlannerReplies) :
              /\ plan_call' = c
              /\ IF c.raised
                 THEN Finish(ErrorResponse("Exception"))
                      /\ query_spec' = query_spec
                 ELSE LET r == PlannerResults[c.reply]
                      IN  IF r.raised # ""
                          THEN /\ Finish(ErrorResponse(r.raised))
                               /\ query_spec' = query_spec
                          ELSE /\ query_spec' = r.spec
                               /\ pc' = "profile"
                               /\ resp' = resp
    /\ UNCHANGED <<appVars, svcVars, history, inflight, provider, message, hasData, df_pop, population_warnings,
                   schema, llm_response, code, validations, execution_result,
                   out_output, out_success, out_error, narrative, genReqs,
                   narrReqs, accepted, execCode>>

\* Profile with the descriptor attached whenever the enrichment ran
Profile_DescribeAnyTable ==
    /\ pc = "profile"
    /\ LET e == ProfileError(query_spec)
       IN  IF e # ""
           THEN Finish(ErrorResponse(e)) /\ UNCHANGED <<schema, calls>>
           ELSE /\ schema' = [aux_dataframes |-> calls.enrich = 1,
                              aux_warnings |-> population_warnings # <<>>]
                /\ Called("profile")
                /\ pc' = "generate"
                /\ resp' = resp
    /\ UNCHANGED <<appVars, svcVars, history, inflight, provider, message, hasData, df_pop, population_warnings,
                   query_spec, llm_response, code, validations, plan_call,
                   execution_result, out_output, out_success, out_error,
                   narrative, genReqs, narrReqs, accepted, execCode>>

\* main.py 355-373: profile the columns, attach the auxiliary descriptors
Profile ==
    /\ pc = "profile"
    /\ LET e == ProfileError(query_spec)
       IN  IF e # ""
           THEN Finish(ErrorResponse(e)) /\ UNCHANGED <<schema, calls>>
           ELSE /\ schema' = [aux_dataframes |-> df_pop = "loaded",
                              aux_warnings |-> population_warnings # <<>>]
                /\ Called("profile")
                /\ pc' = "generate"
                /\ resp' = resp
    /\ UNCHANGED <<appVars, svcVars, history, inflight, provider, message, hasData, df_pop, population_warnings,
                   query_spec, llm_response, code, validations, plan_call,
                   execution_result, out_output, out_success, out_error,
                   narrative, genReqs, narrReqs, accepted, execCode>>

\* one call of LLMService.get_analysis_code (llm_service.py 190-210) with
\* these arguments, up to the request to the provider; awaiting is the
\* position of chat() while the reply is awaited
AnalysisCodeCall(user_message, conversation_history, spec, awaiting) ==
    /\ Called("gen")
    /\ IF provider \notin KnownProviders
       THEN /\ Finish(ErrorResponse("ValueError"))
            /\ UNCHANGED <<genReqs, inflight>>
       ELSE /\ genReqs' = Append(genReqs,
                                 [user_message |-> user_message,
                                  spec |-> GenerationRequest(
                                               user_message,
                                               conversation_history,
                                               spec).spec])
            /\ inflight' = <<GenerationRequest(user_message,
                                               conversation_history, spec)>>
            /\ pc' = awaiting
            /\ resp' = resp

\* main.py 375-381: first generation request
Generate ==
    /\ pc = "generate"
    /\ AnalysisCodeCall(message, history, query_spec, "generating")
    /\ UNCHANGED <<appVars, svcVars, history, provider, message, hasData, df_pop, population_warnings,
                   query_spec, schema, llm_response, code, validations, plan_call,
                   execution_result, out_output, out_success, out_error,
                   narrative, narrReqs, accepted, execCode>>

\* the provider answers the request in flight or the call raises
\* (llm_service.py 203-208 and the _call_ functions)
GenerationReply ==
    /\ pc \in {"generating", "regenerating"}
    /\ inflight' = <<>>
    /\ \E c \in CallOutcomes(NoCodeReplies \cup CodeReplies) :
         IF c.raised
         THEN Finish(ErrorResponse("Exception"))
              /\ llm_response' = llm_response
         ELSE /\ llm_response' = c.reply
              /\ pc' = IF pc = "generating" THEN "detect" ELSE "revalidate"
              /\ resp' = resp
    /\ UNCHANGED <<appVars, svcVars, history, provider, message, hasData, df_pop, population_warnings,
                   query_spec, schema, code, validations, plan_call, execution_result,
                   out_output, out_success, out_error, narrative, calls, genReqs,
                   narrReqs, accepted, execCode>>

\* "```python" not in llm_response and "```" not in llm_response
NoCodeBlock(reply) ==
    ~Contains(reply, FencePython) /\ ~Contains(reply, Fence)

\* RefusalText without the strip()
RefusalText_NoStrip(reply) ==
    IF Len(reply) = 0 \/ Len(reply) < MinRefusalLen
    THEN OUT_OF_REMIT_MESSAGE ELSE reply

\* main.py 385-387: the text returned on the out-of-scope path
RefusalText(reply) ==
    LET text == Strip(reply)
    IN  IF Len(text) = 0 \/ Len(text) < MinRefusalLen
        THEN OUT_OF_REMIT_MESSAGE ELSE text

\* DetectRefusal without the early return
DetectRefusal_FallThrough ==
    /\ pc = "detect"
    /\ IF llm_response.isNone
       THEN Finish(ErrorResponse("TypeError"))
       ELSE pc' = "validate" /\ resp' = resp
    /\ UNCHANGED <<appVars, svcVars, history, inflight, provider, message, hasData, df_pop, population_warnings,
                   query_spec, schema, llm_response, code, validations,
                   plan_call, execution_result, out_output, out_success,
                   out_error, narrative, calls, genReqs, narrReqs, accepted,
                   execCode>>

\* main.py 383-397: a reply without a code block ends the run
DetectRefusal ==
    /\ pc = "detect"
    /\ IF llm_response.isNone
       THEN Finish(ErrorResponse("TypeError"))
       ELSE IF NoCodeBlock(llm_response.v)
       THEN LET text == Some(RefusalText(llm_response.v))
            IN  Finish(ChatResponse(text, None, text, TRUE, None, None, None))
       ELSE pc' = "validate" /\ resp' = resp
    /\ UNCHANGED <<appVars, svcVars, history, inflight, provider, message, hasData, df_pop, population_warnings,
                   query_spec, schema, llm_response, code, validations, plan_call,
                   execution_result, out_output, out_success, out_error,
                   narrative, calls, genReqs, narrReqs, accepted, execCode>>

\* extract_code followed by validate_code on the current reply
ExtractAndValidate(vr) ==
    /\ code' = ExtractCode(llm_response)
    /\ validations' = Append(validations, vr)
    /\ Called("val")
    /\ accepted' = IF vr.valid THEN accepted \cup {code'} ELSE accepted

\* Validate with the verdict of the validator ignored
Validate_Unchecked ==
    /\ pc = "validate"
    /\ \E vr \in ValidationResults :
         /\ ExtractAndValidate(vr)
         /\ pc' = "execute"
    /\ UNCHANGED <<appVars, svcVars, history, inflight, provider, message, hasData, df_pop, population_warnings,
                   query_spec, schema, llm_response, plan_call,
                   execution_result, out_output, out_success, out_error,
                   narrative, resp, genReqs, narrReqs, execCode>>

\* main.py 399-402: validate the first reply
Validate ==
    /\ pc = "validate"
    /\ \E vr \in ValidationResults :
         /\ ExtractAndValidate(vr)
         /\ pc' = IF vr.valid THEN "execute" ELSE "regenerate"
    /\ UNCHANGED <<appVars, svcVars, history, inflight, provider, message, hasData, df_pop, population_warnings,
                   query_spec, schema, llm_response, plan_call,
                   execution_result, out_output, out_success, out_error,
                   narrative, resp, genReqs, narrReqs, execCode>>

\* main.py 404-407: request.history followed by the reply that failed and
\* by the user turn that quotes the validation error
retry_history ==
    history \o << Turn("assistant", llm_response),
                  Turn("user", Some(RetryTurnPrefix \o Fmt(validation_error)
                                        \o RetryTurnSuffix)) >>

\* the retry with the two turns appended to request.history itself
Regenerate_InPlace ==
    /\ pc = "regenerate"
    /\ history' = retry_history
    /\ AnalysisCodeCall(RetryUserMessage, history', query_spec, "regenerating")
    /\ UNCHANGED <<appVars, svcVars, provider, message, hasData, df_pop, population_warnings,
                   query_spec, schema, llm_response, code, validations, plan_call,
                   execution_result, out_output, out_success, out_error,
                   narrative, narrReqs, accepted, execCode>>

\* the retry without the spec of the planner
Regenerate_NoSpec ==
    /\ pc = "regenerate"
    /\ AnalysisCodeCall(RetryUserMessage, retry_history, NoSpec, "regenerating")
    /\ UNCHANGED <<appVars, svcVars, history, provider, message, hasData, df_pop, population_warnings,
                   query_spec, schema, llm_response, code, validations, plan_call,
                   execution_result, out_output, out_success, out_error,
                   narrative, narrReqs, accepted, execCode>>

\* main.py 402-413: the retry asks the generator for corrected code
Regenerate ==
    /\ pc = "regenerate"
    /\ AnalysisCodeCall(RetryUserMessage, retry_history, query_spec,
                        "regenerating")
    /\ UNCHANGED <<appVars, svcVars, history, provider, message, hasData, df_pop, population_warnings,
                   query_spec, schema, llm_response, code, validations, plan_call,
                   execution_result, out_output, out_success, out_error,
                   narrative, narrReqs, accepted, execCode>>

\* Revalidate with a second failure sent back to the generator
Revalidate_Loop ==
    /\ pc = "revalidate"
    /\ \E vr \in ValidationResults :
         /\ ExtractAndValidate(vr)
         /\ pc' = IF vr.valid THEN "execute" ELSE "regenerate"
         /\ resp' = resp
    /\ UNCHANGED <<appVars, svcVars, history, inflight, provider, message, hasData, df_pop, population_warnings,
                   query_spec, schema, llm_response, plan_call,
                   execution_result, out_output, out_success, out_error,
                   narrative, genReqs, narrReqs, execCode>>

\* main.py 414-426: validate the retried reply; a second failure ends the run
Revalidate ==
    /\ pc = "revalidate"
    /\ \E vr \in ValidationResults :
         /\ ExtractAndValidate(vr)
         /\ IF vr.valid
            THEN pc' = "execute" /\ resp' = resp
            ELSE Finish(ChatResponse(llm_response, code', None, FALSE,
                            Some(ValidationFailedPrefix \o Fmt(vr.error)),
                            None, None))
    /\ UNCHANGED <<appVars, svcVars, history, inflight, provider, message, hasData, df_pop, population_warnings,
                   query_spec, schema, llm_response, plan_call,
                   execution_result, out_output, out_success, out_error,
                   narrative, genReqs, narrReqs, execCode>>

\* main.py 427: run the validated code
Execute ==
    /\ pc = "execute"
    /\ \E r \in ExecResults : execution_result' = r
    /\ execCode' = code
    /\ Called("exec")
    /\ pc' = "normalize"
    /\ UNCHANGED <<appVars, svcVars, history, inflight, provider, message, hasData, df_pop, population_warnings,
                   query_spec, schema, llm_response, code, validations, plan_call,
                   out_output, out_success, out_error, narrative, resp,
                   genReqs, narrReqs, accepted>>

\* OutOfRemitError without the 'execute_sql' alternative
OutOfRemitError_NotDefinedOnly(success, error) ==
    /\ ~success
    /\ StrTruthy(error)
    /\ Contains(error.v, NotDefinedText)

\* OutOfRemitError without the test of the error text
OutOfRemitError_AnyFailure(success, error) ==
    /\ ~success
    /\ StrTruthy(error)

\* main.py 433: the failure is recharacterised as an out-of-remit answer
OutOfRemitError(success, error) ==
    /\ ~success
    /\ StrTruthy(error)
    /\ (Contains(error.v, NotDefinedText) \/ Contains(error.v, ExecuteSqlText))

\* Normalize with a failed execution run once more
Normalize_ExecuteAgain ==
    /\ pc = "normalize"
    /\ IF OutOfRemitError(execution_result.success, execution_result.error)
       THEN /\ out_output' = Some(OUT_OF_REMIT_MESSAGE)
            /\ out_error' = None
            /\ out_success' = TRUE
       ELSE /\ out_output' = execution_result.output
            /\ out_error' = execution_result.error
            /\ out_success' = execution_result.success
    /\ pc' = IF ~execution_result.success /\ calls.exec < 2
             THEN "execute" ELSE "narrate"
    /\ UNCHANGED <<appVars, svcVars, history, inflight, provider, message, hasData, df_pop, population_warnings,
                   query_spec, schema, llm_response, code, validations, plan_call,
                   execution_result, narrative, resp, calls, genReqs,
                   narrReqs, accepted, execCode>>

\* main.py 428-436: read the execution result, normalise its errors
Normalize ==
    /\ pc = "normalize"
    /\ IF OutOfRemitError(execution_result.success, execution_result.error)
       THEN /\ out_output' = Some(OUT_OF_REMIT_MESSAGE)
            /\ out_error' = None
            /\ out_success' = TRUE
       ELSE /\ out_output' = execution_result.output
            /\ out_error' = execution_result.error
            /\ out_success' = execution_result.success
    /\ pc' = "narrate"
    /\ UNCHANGED <<appVars, svcVars, history, inflight, provider, message, hasData, df_pop, population_warnings,
                   query_spec, schema, llm_response, code, validations, plan_call,
                   execution_result, narrative, resp, calls, genReqs,
                   narrReqs, accepted, execCode>>

\* main.py 442: the output is worth a narrative
NarratableOutput(success, output) ==
    /\ success
    /\ StrTruthy(output)
    /\ Len(Strip(output.v)) > NarrativeMinOutput

\* main.py 438-449: request the grounding narrative
Narrate ==
    /\ pc = "narrate"
    /\ IF NarratableOutput(out_success, out_output) /\ needs_narrative(message)
       THEN /\ Called("narr")
            /\ narrReqs' = Append(narrReqs,
                   NarrativeRequest(message, llm_response, out_output,
                                    execution_result))
            /\ \E c \in CallOutcomes({<<"K">>}) :
                 IF c.raised
                 THEN Finish(ErrorResponse("Exception"))
                      /\ narrative' = narrative
                 ELSE /\ narrative' = c.reply
                      /\ pc' = "respond"
                      /\ resp' = resp
       ELSE /\ narrative' = None
            /\ pc' = "respond"
            /\ UNCHANGED <<calls, narrReqs, resp>>
    /\ UNCHANGED <<appVars, svcVars, history, inflight, provider, message, hasData, df_pop, population_warnings,
                   query_spec, schema, llm_response, code, validations, plan_call,
                   execution_result, out_output, out_success, out_error,
                   genReqs, accepted, execCode>>

\* main.py 451-460: assemble the response
Respond ==
    /\ pc = "respond"
    /\ Finish(ChatResponse(llm_response, code, out_output, out_success,
                           out_error, execution_result.summary_data,
                           narrative))
    /\ UNCHANGED <<appVars, svcVars, history, inflight, provider, message, hasData, df_pop, population_warnings,
                   query_spec, schema, llm_response, code, validations, plan_call,
                   execution_result, out_output, out_success, out_error,
                   narrative, calls, genReqs, narrReqs, accepted, execCode>>

Next ==
    \/ Start
    \/ Enrich
    \/ Plan
    \/ Profile
    \/ Generate
    \/ GenerationReply
    \/ DetectRefusal
    \/ Validate
    \/ Regenerate
    \/ Revalidate
    \/ Execute
    \/ Normalize
    \/ Narrate
    \/ Respond

Spec == Init /\ [][Next]_vars

\* ------------------------------------------------------------------------
\* Properties of the orchestration run
\* ------------------------------------------------------------------------
Done == pc = "done"
Returned == pc = "done" /\ resp.status = 200

\* both the original and the retried code failed validation
BothInvalid ==
    /\ Len(validations) = 2
    /\ ~validations[1].valid
    /\ ~validations[2].valid

\* C1: in one run the generator and the validator are each invoked at most
\* twice; the second generation happens only after a first validation
\* failure, which is followed by exactly one regeneration, and a second
\* validation failure ends the run without another regeneration.
C1_RetryAtMostOnce ==
    /\ calls.gen <= 2
    /\ calls.val <= 2
    /\ Len(validations) = calls.val
    /\ calls.gen = 2 => (calls.val >= 1 /\ ~validations[1].valid)
    /\ pc = "regenerate" => (calls.gen = 1 /\ calls.val = 1 /\ ~valid)
    /\ pc = "revalidate" => (calls.gen = 2 /\ calls.val = 1)
    /\ (calls.val >= 1 /\ ~validations[1].valid /\ pc \in {"execute", "done"}
        /\ resp.status # 500) => calls.gen = 2
    /\ BothInvalid => (Done /\ calls.gen = 2)

C1_Witness ==
    /\ Returned
    /\ BothInvalid
    /\ calls.gen = 2
    /\ calls.val = 2

\* C2: execute_safely only ever receives code that validate_code accepted in
\* this run; when both the original and the retried code are rejected the
\* run returns without any execution, with execution_success = false, no
\* execution output, no narrative and an error made of the text of the
\* second validation error.
C2_OnlyValidatedCodeRuns ==
    /\ calls.exec > 0 => (execCode \in accepted /\ valid)
    /\ pc \in {"execute", "normalize", "narrate", "respond"} => valid
    /\ (BothInvalid /\ ~llm_response.isNone) =>
           /\ Returned
           /\ calls.exec = 0
           /\ resp.execution_success = FALSE
           /\ resp.execution_result = None
           /\ resp.narrative = None
           /\ resp.error =
                  Some(ValidationFailedPrefix \o validations[2].error.v)

C2_Witness ==
    /\ Returned
    /\ BothInvalid
    /\ validations[1].error # validations[2].error
    /\ calls.exec = 0
    /\ Contains(resp.error.v, validations[2].error.v)

\* the run ended on a first reply that has no code block
RefusedRun ==
    /\ Done
    /\ calls.gen = 1
    /\ ~llm_response.isNone
    /\ NoCodeBlock(llm_response.v)

\* C3 as stated: when the first reply has no code block the response text
\* is the reply itself if it is at least 20 characters long and otherwise
\* the canonical out-of-remit sentence, with code = none,
\* execution_success = true and error = none.
C3_ReplyVerbatim ==
    RefusedRun =>
        /\ resp.status = 200
        /\ resp.response =
               IF Len(llm_response.v) >= MinRefusalLen
               THEN llm_response ELSE Some(OUT_OF_REMIT_MESSAGE)
        /\ resp.code = None
        /\ resp.execution_success = TRUE
        /\ resp.error = None

\* C3 amended: when the first reply has no code block the response text is
\* the reply with its leading and trailing whitespace removed if that
\* stripped text is at least 20 characters long, and otherwise the canonical
\* out-of-remit sentence, with code = none, execution_success = true and
\* error = none.
C3_StrippedReplyOrCanonical ==
    RefusedRun =>
        /\ resp.status = 200
        /\ LET kept == {i \in 1..Len(llm_response.v) :
                           ~IsSpace(llm_response.v[i])}
               text == IF kept = {} THEN <<>>
                       ELSE SubSeq(llm_response.v, Min(kept), Max(kept))
           IN  resp.response =
                   IF Len(text) >= MinRefusalLen
                   THEN Some(text) ELSE Some(OUT_OF_REMIT_MESSAGE)
        /\ resp.code = None
        /\ resp.execution_success = TRUE
        /\ resp.error = None

C3_Witness ==
    /\ RefusedRun
    /\ Len(llm_response.v) > MinRefusalLen
    /\ IsSpace(llm_response.v[1])
    /\ resp.response # llm_response
    /\ resp.response # Some(OUT_OF_REMIT_MESSAGE)

\* C4: in a run whose generated reply has no code block, validate_code,
\* execute_safely and generate_narrative are never invoked and no second
\* generation is requested: the run ends at the refusal.
C4_RefusalIsTerminal ==
    (calls.gen >= 1 /\ Len(genReqs) = 1 /\ calls.gen = 1
     /\ ~llm_response.isNone /\ NoCodeBlock(llm_response.v)) =>
        /\ calls.val = 0
        /\ calls.exec = 0
        /\ calls.narr = 0
        /\ pc \in {"detect", "done"}
        /\ Done => (resp.status = 200 /\ resp.code = None)

C4_Witness ==
    /\ RefusedRun
    /\ Returned
    /\ calls.val = 0
    /\ calls.exec = 0
    /\ calls.narr = 0

\* the execution capability reported a failure whose error text has the
\* out-of-remit signature
SignatureFailure ==
    /\ calls.exec = 1
    /\ ~execution_result.success
    /\ ~execution_result.error.isNone
    /\ \/ Contains(execution_result.error.v, NotDefinedText)
       \/ Contains(execution_result.error.v, ExecuteSqlText)

\* C5: when execution fails with an error text containing 'is not defined'
\* or 'execute_sql', the response returned has execution_success = true,
\* error = none and the canonical out-of-remit sentence as execution output.
C5_OutOfRemitReclassified ==
    (Returned /\ SignatureFailure) =>
        /\ resp.execution_success = TRUE
        /\ resp.error = None
        /\ resp.execution_result = Some(OUT_OF_REMIT_MESSAGE)

C5_Witness ==
    /\ Returned
    /\ SignatureFailure
    /\ execution_result.error = Some(ErrExecuteSql)
    /\ resp.execution_success

\* C6: when execution fails with an error text that does not have the
\* out-of-remit signature, the run returns a response with
\* execution_success = false whose error is the error of the execution
\* result, unchanged.
C6_RawExecutionError ==
    (Done /\ calls.exec = 1 /\ ~execution_result.success
     /\ ~SignatureFailure /\ ~llm_response.isNone) =>
        /\ resp.status = 200
        /\ resp.execution_success = FALSE
        /\ resp.error = execution_result.error
        /\ resp.execution_result = execution_result.output

C6_Witness ==
    /\ Returned
    /\ calls.exec = 1
    /\ ~execution_result.success
    /\ execution_result.error = Some(ErrBoom)
    /\ resp.error = Some(ErrBoom)

\* the message is narrative-worthy: more than 5 words or a fixed keyword
NarrativeWorthy ==
    \/ WordCount(message) > NarrativeWordLimit
    \/ \E k \in narrative_keywords : Contains(Lower(message), k)

\* C7 as stated: a narrative is requested only in runs where execution
\* succeeded, its output has more than 10 non-whitespace characters and the
\* message is narrative-worthy; in every other run the narrative is none.
C7_NarrativeOnlyAfterSuccess ==
    LET eligible ==
            /\ calls.exec = 1
            /\ execution_result.success
            /\ ~execution_result.output.isNone
            /\ NonSpaceCount(execution_result.output.v) > NarrativeMinOutput
            /\ NarrativeWorthy
    IN  /\ calls.narr > 0 => eligible
        /\ (Returned /\ ~eligible) => resp.narrative = None

\* C8: two runs that differ only in the commentary of the generated reply
\* (same question, same code, same execution output and summary data) issue
\* the same narrative request: the request sent is the one any reply with
\* the same code block would have produced.
C8_NarrativeIgnoresCommentary ==
    calls.narr = 1 =>
        /\ Len(narrReqs) = 1
        /\ \A other \in CodeReplies :
               ExtractCode(Some(other)) = ExtractCode(llm_response) =>
                   NarrativeRequest(message, Some(other), out_output,
                                    execution_result) = narrReqs[1]
        /\ narrReqs[1].user_question = message
        /\ narrReqs[1].analysis_output = out_output.v

C8_Witness ==
    /\ calls.narr = 1
    /\ Returned
    /\ \E other \in CodeReplies :
           /\ other # llm_response.v
           /\ ExtractCode(Some(other)) = ExtractCode(llm_response)
    /\ narrReqs[1].key_data_points # None

\* the planner's reply holds a structured spec: the text between its first
\* '{' and its last '}' decodes to a JSON object
StructuredReply(raw) ==
    /\ ~raw.isNone
    /\ LET s == Strip(raw.v)
           a == Find(s, "{")
           b == RFind(s, "}")
       IN  /\ a # 0
           /\ b > a
           /\ JsonLoads(SubSeq(s, a, b)).ok
           /\ JsonLoads(SubSeq(s, a, b)).val.kind = "object"

\* the planning step was taken and did not yield a structured spec
PlannerFailed ==
    /\ calls.plan = 1
    /\ \/ provider \notin KnownProviders
       \/ plan_call.raised
       \/ ~StructuredReply(plan_call.reply)

\* C9 as stated: whenever the planning step fails to yield a structured
\* spec, the spec is absent and the run goes on to generation instead of
\* failing.
C9_PlannerFailureAbsorbed ==
    PlannerFailed =>
        /\ query_spec = NoSpec
        /\ Done => calls.gen >= 1

\* C10 as stated: for every planner reply get_query_spec returns none or a
\* JSON object, so that reading the groupby field of the spec never fails.
C10_SpecIsNoneOrObject ==
    (calls.plan = 1 /\ provider \in KnownProviders /\ ~plan_call.raised) =>
        /\ query_spec.isNone \/ query_spec.v.kind = "object"
        /\ ~(Done /\ calls.gen = 0 /\ resp.detail = "AttributeError")

\* ------------------------------------------------------------------------
\* C11: order of the steps of a run
\* ------------------------------------------------------------------------
\* the steps from profiling on: profiling follows the planner, generation
\* follows profiling and the enrichment call (when the message asks for
\* it), validation follows generation, execution follows validation and is
\* followed by no further generation or validation, the narrative follows
\* execution and is followed by the response only
\* the messages of a checked run that ask for the enrichment
PopulationMessages == {m \in Messages : needs_population_data(m)}

StepOrderFromProfile ==
    /\ calls.plan <= 1 /\ calls.profile <= 1 /\ calls.enrich <= 1
    /\ calls.exec <= 1 /\ calls.narr <= 1
    /\ calls.profile >= 1 => calls.plan = 1
    /\ calls.gen >= 1 =>
          /\ calls.profile = 1
          /\ message \in PopulationMessages => calls.enrich = 1
    /\ calls.val >= 1 => calls.gen >= calls.val
    /\ calls.exec >= 1 =>
          /\ calls.val >= 1
          /\ pc \in {"normalize", "narrate", "respond", "done"}
    /\ calls.narr >= 1 => calls.exec = 1 /\ pc \in {"respond", "done"}

EnrichmentFailed == calls.enrich = 1 /\ df_pop = "empty"

\* C12: when the enrichment fails (missing join key, failed request,
\* unresolved countries, any exception), the run goes on to the planner
\* with no response produced, the failure is held as a warning, and the
\* schema handed to generation carries the warning and no auxiliary table
C12_EnrichmentFailureIsWarning ==
    EnrichmentFailed =>
        /\ population_warnings # <<>>
        /\ calls.plan = 0 => pc = "plan" /\ resp = NoResp
        /\ calls.gen >= 1 => schema.aux_warnings /\ ~schema.aux_dataframes

\* the builder raised and the run still returned an answer
C12_Witness ==
    /\ Returned
    /\ EnrichmentFailed
    /\ population_warnings = <<"failed">>
    /\ calls.gen >= 1 /\ calls.exec = 1

\* ------------------------------------------------------------------------
\* The paginated fetch and its cache: Data360Service._fetch_indicator_rows
\* ------------------------------------------------------------------------
\* no chat() run is in progress
ChatIdle ==
    /\ pc = "idle"
    /\ history = <<>>
    /\ inflight = <<>>
    /\ provider = "other"
    /\ message = MsgHello
    /\ hasData = FALSE
    /\ df_pop = "empty"
    /\ population_warnings = <<>>
    /\ query_spec = NoSpec
    /\ schema = [aux_dataframes |-> FALSE, aux_warnings |-> FALSE]
    /\ llm_response = None
    /\ code = None
    /\ validations = <<>>
    /\ plan_call = NoCall
    /\ execution_result = NoExecution
    /\ out_output = None
    /\ out_success = FALSE
    /\ out_error = None
    /\ narrative = None
    /\ resp = NoResp
    /\ calls = [plan |-> 0, enrich |-> 0, profile |-> 0, gen |-> 0, val |-> 0,
                exec |-> 0, narr |-> 0]
    /\ genReqs = <<>>
    /\ narrReqs = <<>>
    /\ accepted = {}
    /\ execCode = None

PAGE_SIZE == 1000
MAX_PAGES_PER_QUERY == 12
INDICATOR == "WB_WDI_SP_POP_TOTL"

\* most calls of _fetch_indicator_rows in a checked run
MaxFetches == 3

\* full pages the server holds when two callers overlap
ConcurrentQuota == 1

\* the iso3 argument: None, "" or a code
Iso3Args == {[isNone |-> TRUE, v |-> ""], [isNone |-> FALSE, v |-> ""],
             [isNone |-> FALSE, v |-> "AFG"]}

\* the year range of the caller's dataset
YearRange == <<"2000", "2001">>

\* the key under which the rows for iso3 are cached (lines 424 and 455)
CacheKey(iso3) ==
    <<INDICATOR, IF ~iso3.isNone /\ iso3.v # "" THEN iso3.v ELSE "_ALL_",
      YearRange[1], YearRange[2]>>

\* one page of the server's reply: TIME_PERIOD of its first and last item,
\* the number of items, and what the items hold
EmptyPage == [first |-> "", last |-> "", len |-> 0, body |-> "none"]
ShortPages == {[first |-> "2000", last |-> "2001", len |-> 2, body |-> b] :
                   b \in {"s1", "s2"}}
FullPages == {[first |-> "2000", last |-> "2001", len |-> PAGE_SIZE,
               body |-> "a"],
              [first |-> "2002", last |-> "2003", len |-> PAGE_SIZE,
               body |-> "b"],
              [first |-> "2000", last |-> "2001", len |-> PAGE_SIZE,
               body |-> "c"]}
Pages == {EmptyPage} \cup ShortPages \cup FullPages

\* what one request can give: an exception (connection error, timeout,
\* error status, undecodable body) or a page
Replies ==
    {[raised |-> TRUE, page |-> EmptyPage]}
    \cup {[raised |-> FALSE, page |-> g] : g \in Pages}

\* page_signature (line 436)
PageSignature(page) == <<page.first, page.last, page.len>>

\* a table object: its identity, its rows (page by page) and whether a
\* caller has added the country column to it
NoTable == [id |-> 0, rows |-> <<>>, country |-> FALSE]
DataFrame(id, rows_) == [id |-> id, rows |-> rows_, country |-> FALSE]
CopyOf(table, id) == [table EXCEPT !.id = id]

\* the local state of one call
IdleFetch ==
    [pc |-> "idle", iso3 |-> [isNone |-> TRUE, v |-> ""], rows |-> <<>>,
     skip |-> 0, pages |-> 0, last_page_signature |-> <<>>, out |-> NoTable,
     requests |-> 0, replies |-> <<>>, cachedAtCall |-> FALSE,
     wrote |-> FALSE, result |-> NoTable, mutated |-> FALSE]

Callers == DOMAIN fetch

\* the service with one caller at a time
InitFetch ==
    /\ ChatIdle
    /\ AppIdle
    /\ cache = <<>>
    /\ fetch = [p \in {1} |-> IdleFetch]
    /\ stored = <<>>
    /\ nextId = 1
    /\ quota = -1
    /\ fetches = 0
    /\ resolution = [phase |-> "idle"]
    /\ norm = [phase |-> "idle"]

\* the service with two callers whose fetches overlap
InitFetchConcurrent ==
    /\ ChatIdle
    /\ AppIdle
    /\ cache = <<>>
    /\ fetch = [p \in {1, 2} |-> IdleFetch]
    /\ stored = <<>>
    /\ nextId = 1
    /\ quota = ConcurrentQuota
    /\ fetches = 0
    /\ resolution = [phase |-> "idle"]
    /\ norm = [phase |-> "idle"]

\* a caller starts _fetch_indicator_rows (lines 397-407)
Call(p) ==
    /\ fetch[p].pc \in {"idle", "returned", "raised"}
    /\ fetches < MaxFetches
    /\ fetches' = fetches + 1
    /\ \E iso3 \in Iso3Args :
         fetch' = [fetch EXCEPT ![p] =
                     [IdleFetch EXCEPT !.pc = "loop", !.iso3 = iso3,
                          !.cachedAtCall = CacheKey(iso3) \in DOMAIN cache,
                          !.mutated = fetch[p].mutated \/ fetch[p].out.country]]
    /\ UNCHANGED <<appVars, chatVars, cache, stored, nextId, quota, resolution, norm>>

\* cache[key] = table, for a key that may be new
Put(c, key, table) ==
    [k \in DOMAIN c \cup {key} |-> IF k = key THEN table ELSE c[k]]

\* out.copy() as stored under the key (line 455), without the copy
StoredTable_Alias(out, id) == out

\* out.copy() as stored under the key (line 455)
StoredTable(out, id) == CopyOf(out, id)

\* the stored table itself returned on a hit, without the copy
CachedTable_Alias(entry, id) == entry

\* self._cache[cache_key].copy() as returned on a hit (line 426)
CachedTable(entry, id) == CopyOf(entry, id)

\* Complete, storing the table whatever the offset reached
Complete_AlwaysStore(p, f) ==
    LET out == DataFrame(nextId, f.rows)
        key == CacheKey(f.iso3)
    IN  /\ cache' = Put(cache, key, StoredTable(out, nextId + 1))
        /\ stored' = Put(stored, key, f.rows)
        /\ nextId' = nextId + 2
        /\ fetch' = [fetch EXCEPT ![p] =
                        [f EXCEPT !.pc = "returned", !.out = out,
                                  !.result = out, !.wrote = TRUE]]

\* lines 453-456, after the loop: build the table from the rows, store a
\* copy when the loop ended in its first page, return the table
Complete(p, f) ==
    LET out == DataFrame(nextId, f.rows)
        key == CacheKey(f.iso3)
    IN  /\ IF f.skip = 0
           THEN /\ cache' = Put(cache, key, StoredTable(out, nextId + 1))
                /\ stored' = Put(stored, key, f.rows)
                /\ nextId' = nextId + 2
           ELSE /\ UNCHANGED <<cache, stored>>
                /\ nextId' = nextId + 1
        /\ fetch' = [fetch EXCEPT ![p] =
                        [f EXCEPT !.pc = "returned", !.out = out,
                                  !.result = out, !.wrote = (f.skip = 0)]]

\* lines 408-426: the head of the loop, up to the request being sent
LoopHead(p) ==
    /\ fetch[p].pc = "loop"
    /\ LET f == [fetch[p] EXCEPT !.pages = @ + 1]
           key == CacheKey(f.iso3)
       IN  IF f.pages > MAX_PAGES_PER_QUERY
           THEN Complete(p, f)
           ELSE IF f.skip = 0 /\ key \in DOMAIN cache
           THEN LET out == CachedTable(cache[key], nextId)
                IN  /\ fetch' = [fetch EXCEPT ![p] =
                                    [f EXCEPT !.pc = "returned", !.out = out,
                                              !.result = out]]
                    /\ nextId' = nextId + 1
                    /\ UNCHANGED <<cache, stored>>
           ELSE /\ fetch' = [fetch EXCEPT ![p] =
                                [f EXCEPT !.pc = "await", !.requests = @ + 1]]
                /\ UNCHANGED <<cache, stored, nextId>>
    /\ UNCHANGED <<appVars, chatVars, quota, fetches, resolution, norm>>

\* the repeated-page guard (line 437), never taken
RepeatedPage_Never(f, page) == FALSE

\* the repeated-page guard (line 437)
RepeatedPage(f, page) ==
    f.last_page_signature = PageSignature(page) /\ f.skip > 0

\* lines 428-451: the reply arrives and the page is processed
Response(p) ==
    /\ fetch[p].pc = "await"
    /\ \E r \in Replies :
         /\ (r.page.len >= PAGE_SIZE) => quota # 0
         /\ quota' = IF r.page.len >= PAGE_SIZE /\ quota > 0
                     THEN quota - 1 ELSE quota
         /\ LET f == [fetch[p] EXCEPT !.replies = Append(@, r)]
                g == [f EXCEPT !.rows = Append(@, r.page),
                               !.last_page_signature = PageSignature(r.page)]
            IN  IF r.raised
                THEN /\ fetch' = [fetch EXCEPT ![p] = [f EXCEPT !.pc = "raised"]]
                     /\ UNCHANGED <<cache, stored, nextId>>
                ELSE IF r.page.len = 0 \/ RepeatedPage(f, r.page)
                THEN Complete(p, f)
                ELSE IF r.page.len < PAGE_SIZE
                THEN Complete(p, g)
                ELSE /\ fetch' = [fetch EXCEPT ![p] =
                                     [g EXCEPT !.pc = "loop",
                                               !.skip = @ + PAGE_SIZE]]
                     /\ UNCHANGED <<cache, stored, nextId>>
    /\ UNCHANGED <<appVars, chatVars, fetches, resolution, norm>>

\* the caller adds the country column to the table it was given
\* (line 234): every holder of that object sees the change
CallerMutates(p) ==
    /\ fetch[p].pc = "returned"
    /\ ~fetch[p].out.country
    /\ LET id == fetch[p].out.id
           Touch(table) == IF table.id = id
                           THEN [table EXCEPT !.country = TRUE] ELSE table
       IN  /\ fetch' = [q \in DOMAIN fetch |->
                           [fetch[q] EXCEPT !.out = Touch(@)]]
           /\ cache' = [k \in DOMAIN cache |-> Touch(cache[k])]
    /\ UNCHANGED <<appVars, chatVars, stored, nextId, quota, fetches, resolution, norm>>

NextFetch ==
    \/ \E p \in Callers : Call(p)
    \/ \E p \in Callers : LoopHead(p)
    \/ \E p \in Callers : Response(p)
    \/ \E p \in Callers : CallerMutates(p)

SpecFetch == InitFetch /\ [][NextFetch]_vars

SpecFetchConcurrent == InitFetchConcurrent /\ [][NextFetch]_vars

\* the requests of a fetch are answered (the request carries a timeout,
\* line 428) and the loop goes on
SpecFetchFair ==
    /\ SpecFetch
    /\ WF_vars(\E p \in Callers : LoopHead(p))
    /\ WF_vars(\E p \in Callers : Response(p))

\* ------------------------------------------------------------------------
\* C13: the paginated fetch terminates
\* ------------------------------------------------------------------------
InProgress(p) == fetch[p].pc \in {"loop", "await"}
Ended(p) == fetch[p].pc \in {"returned", "raised"}

\* the server answered every request of the call with the same full page
SamePageEveryTime(f) ==
    /\ Len(f.replies) >= 2
    /\ ~f.replies[1].raised
    /\ f.replies[1].page.len >= PAGE_SIZE
    /\ \A i \in DOMAIN f.replies : f.replies[i] = f.replies[1]

PageBudgetKept ==
    \A p \in Callers :
        /\ fetch[p].requests <= MAX_PAGES_PER_QUERY
        /\ SamePageEveryTime(fetch[p]) =>
              /\ fetch[p].pc = "returned"
              /\ fetch[p].requests = 2
              /\ fetch[p].rows = <<fetch[p].replies[1].page>>

\* C13: a call of the paginated fetch sends at most 12 page requests
\* whatever the server answers and then ends; when the server ignores the
\* offset and answers every request with the same full page, the
\* repeated-page guard ends the call at the second request
C13_FetchTerminates ==
    /\ []PageBudgetKept
    /\ InProgress(1) ~> Ended(1)

\* a call that stopped because it had sent 12 requests
C13_Witness ==
    /\ fetch[1].pc = "returned"
    /\ fetch[1].requests = MAX_PAGES_PER_QUERY
    /\ Len(fetch[1].rows) = MAX_PAGES_PER_QUERY

\* ------------------------------------------------------------------------
\* C14: a cached key is served without the network
\* ------------------------------------------------------------------------
\* C14: a call whose key was in the cache when it started sends no request
\* and returns the rows of the fetch that stored the key, without any
\* change callers made to tables returned earlier
C14_CacheHitSameRows ==
    \A p \in Callers :
        (fetch[p].pc = "returned" /\ fetch[p].cachedAtCall) =>
            /\ fetch[p].requests = 0
            /\ fetch[p].result.rows = stored[CacheKey(fetch[p].iso3)]
            /\ ~fetch[p].result.country

\* a hit that returned rows after the caller had changed an earlier table
C14_Witness ==
    /\ fetch[1].pc = "returned"
    /\ fetch[1].cachedAtCall
    /\ fetch[1].mutated
    /\ fetch[1].result.rows # <<>>

\* ------------------------------------------------------------------------
\* C15: what the cache holds
\* ------------------------------------------------------------------------
\* C15: every cache entry is the complete result of the fetch that stored
\* it, a fetch that ended within its first page; a call that sent more
\* than one request or raised leaves its key as it found it; a key once
\* stored stays
C15_CacheOnlyFirstPageResults ==
    /\ DOMAIN stored = DOMAIN cache
    /\ \A k \in DOMAIN cache :
          /\ cache[k].rows = stored[k]
          /\ ~cache[k].country
          /\ Len(cache[k].rows) <= 1
          /\ \A i \in DOMAIN cache[k].rows : cache[k].rows[i].len < PAGE_SIZE
    /\ \A p \in Callers :
          (Ended(p) /\ (fetch[p].requests >= 2 \/ fetch[p].pc = "raised")) =>
              /\ ~fetch[p].wrote
              /\ ~fetch[p].cachedAtCall =>
                    CacheKey(fetch[p].iso3) \notin DOMAIN cache

\* one key stored, and a later call for the other key that needed two
\* pages and stored nothing
C15_Witness ==
    /\ cache # <<>>
    /\ fetch[1].pc = "returned"
    /\ fetch[1].requests >= 2
    /\ Len(fetch[1].result.rows) >= 2
    /\ CacheKey(fetch[1].iso3) \notin DOMAIN cache

\* ------------------------------------------------------------------------
\* C16: two overlapping fetches of one key
\* ------------------------------------------------------------------------
\* both callers fetched the same key from the server and both stored it
BothStored ==
    /\ \A p \in {1, 2} : fetch[p].pc = "returned" /\ fetch[p].wrote
    /\ CacheKey(fetch[1].iso3) = CacheKey(fetch[2].iso3)

CacheWellFormed ==
    /\ \A k \in DOMAIN cache : cache[k].rows = stored[k] /\ ~cache[k].country
    /\ BothStored =>
          cache[CacheKey(fetch[1].iso3)].rows
              \in {fetch[1].result.rows, fetch[2].result.rows}

\* a stored table object is never changed: a key gets another object or
\* keeps its object as it was
EntryNeverModified ==
    \A k \in DOMAIN cache :
        /\ k \in DOMAIN cache'
        /\ cache'[k].id = cache[k].id => cache'[k] = cache[k]

\* C16: when two fetches of one key overlap the server may be asked twice,
\* and the cache stays sound: the key maps to the complete table of the
\* fetch that stored last, and no stored table is modified in place
C16_ConcurrentFetchesKeepCache ==
    /\ []CacheWellFormed
    /\ [][EntryNeverModified]_vars

\* both fetches went to the server, got different rows and stored them
C16_Witness ==
    /\ BothStored
    /\ fetch[1].requests = 1 /\ fetch[2].requests = 1
    /\ fetch[1].result.rows # fetch[2].result.rows
    /\ fetch[1].out.country

\* ------------------------------------------------------------------------
\* Country labels: _normalize_country_name and _country_to_iso3
\* ------------------------------------------------------------------------
\* letters outside ASCII, named by their code points: U+00E9 and U+00C9
\* (e and E with acute) and U+00F4 (o with circumflex) decompose under
\* NFKD into the ASCII letter and a combining mark; U+00F8 (o with stroke)
\* has no decomposition
EAcute == "U+00E9"
EAcuteUpper == "U+00C9"
OCircumflex == "U+00F4"
OStroke == "U+00F8"

LowerLetters ==
    { "a", "b", "c", "d", "e", "f", "g", "h", "i", "j", "k", "l", "m",
      "n", "o", "p", "q", "r", "s", "t", "u", "v", "w", "x", "y", "z" }

UpperLetters ==
    { "A", "B", "C", "D", "E", "F", "G", "H", "I", "J", "K", "L", "M",
      "N", "O", "P", "Q", "R", "S", "T", "U", "V", "W", "X", "Y", "Z" }

\* c.upper() of one character
UpperChar(c) ==
    CASE c = "a" -> "A"
      [] c = "b" -> "B"
      [] c = "c" -> "C"
      [] c = "d" -> "D"
      [] c = "e" -> "E"
      [] c = "f" -> "F"
      [] c = "g" -> "G"
      [] c = "h" -> "H"
      [] c = "i" -> "I"
      [] c = "j" -> "J"
      [] c = "k" -> "K"
      [] c = "l" -> "L"
      [] c = "m" -> "M"
      [] c = "n" -> "N"
      [] c = "o" -> "O"
      [] c = "p" -> "P"
      [] c = "q" -> "Q"
      [] c = "r" -> "R"
      [] c = "s" -> "S"
      [] c = "t" -> "T"
      [] c = "u" -> "U"
      [] c = "v" -> "V"
      [] c = "w" -> "W"
      [] c = "x" -> "X"
      [] c = "y" -> "Y"
      [] c = "z" -> "Z"
      [] OTHER -> c

Upper(s) == [i \in 1..Len(s) |-> UpperChar(s[i])]

\* [a-zA-Z0-9]
IsAlnum(c) == c \in LowerLetters \cup UpperLetters \/ IsDigit(c)

\* the sequences of ss joined in order
RECURSIVE Concat(_)
Concat(ss) == IF ss = <<>> THEN <<>> ELSE Head(ss) \o Concat(Tail(ss))

\* the characters of s at the positions K, in order
Pick(s, K) ==
    [j \in 1..Cardinality(K) |->
        s[CHOOSE i \in K : Cardinality({k \in K : k <= i}) = j]]

\* encode("ascii", "ignore") without the NFKD decomposition
AsciiFold_NoDecomposition(c) ==
    IF c \in {EAcute, EAcuteUpper, OCircumflex, OStroke} THEN <<>> ELSE <<c>>

\* unicodedata.normalize("NFKD", c).encode("ascii", "ignore") of one
\* character (lines 539-543)
AsciiFold(c) ==
    CASE c = EAcute -> <<"e">>
      [] c = EAcuteUpper -> <<"E">>
      [] c = OCircumflex -> <<"o">>
      [] c = OStroke -> <<>>
      [] OTHER -> <<c>>

\* re.sub(r"[^a-zA-Z0-9]+", " ", s) (line 545): every run of other
\* characters becomes one space
NonAlnumToSpace(s) ==
    LET K == {i \in 1..Len(s) : IsAlnum(s[i]) \/ i = 1 \/ IsAlnum(s[i - 1])}
        kept == Pick(s, K)
    IN  [j \in 1..Len(kept) |-> IF IsAlnum(kept[j]) THEN kept[j] ELSE " "]

\* re.sub(r"\s+", " ", s) (line 546)
CollapseSpaces(s) ==
    LET K == {i \in 1..Len(s) : ~IsSpace(s[i]) \/ i = 1 \/ ~IsSpace(s[i - 1])}
        kept == Pick(s, K)
    IN  [j \in 1..Len(kept) |-> IF IsSpace(kept[j]) THEN " " ELSE kept[j]]

\* .replace("&", " and ") (line 544)
ReplaceAmpersand(s) ==
    Concat([i \in 1..Len(s) |->
               IF s[i] = "&" THEN <<" ", "a", "n", "d", " ">> ELSE <<s[i]>>])

\* _normalize_country_name with strip() applied before the substitution
normalize_country_name_StripFirst(value) ==
    LET ascii_value == Concat([i \in 1..Len(value) |-> AsciiFold(value[i])])
    IN  CollapseSpaces(
            Lower(NonAlnumToSpace(Strip(ReplaceAmpersand(ascii_value)))))

\* Data360Service._normalize_country_name(value)
normalize_country_name(value) ==
    LET ascii_value == Concat([i \in 1..Len(value) |-> AsciiFold(value[i])])
    IN  CollapseSpaces(
            Lower(Strip(NonAlnumToSpace(ReplaceAmpersand(ascii_value)))))

\* Data360Service.COUNTRY_ALIASES, in the order of the source
COUNTRY_ALIASES ==
    << << << "A", "f", "g", "h", "a", "n", "i", "s", "t", "a", "n" >>,
          << "A", "F", "G" >> >>,
       << << "A", "l", "g", "e", "r", "i", "a" >>,
          << "D", "Z", "A" >> >>,
       << << "A", "n", "g", "o", "l", "a" >>,
          << "A", "G", "O" >> >>,
       << << "A", "r", "g", "e", "n", "t", "i", "n", "a" >>,
          << "A", "R", "G" >> >>,
       << << "A", "r", "m", "e", "n", "i", "a" >>,
          << "A", "R", "M" >> >>,
       << << "A", "z", "e", "r", "b", "a", "i", "j", "a", "n" >>,
          << "A", "Z", "E" >> >>,
       << << "B", "a", "n", "g", "l", "a", "d", "e", "s", "h" >>,
          << "B", "G", "D" >> >>,
       << << "B", "e", "l", "a", "r", "u", "s" >>,
          << "B", "L", "R" >> >>,
       << << "B", "o", "l", "i", "v", "i", "a" >>,
          << "B", "O", "L" >> >>,
       << << "B", "r", "a", "z", "i", "l" >>,
          << "B", "R", "A" >> >>,
       << << "B", "u", "r", "k", "i", "n", "a", " ", "F", "a", "s", "o" >>,
          << "B", "F", "A" >> >>,
       << << "B", "u", "r", "u", "n", "d", "i" >>,
          << "B", "D", "I" >> >>,
       << << "C", "a", "b", "o", " ", "V", "e", "r", "d", "e" >>,
          << "C", "P", "V" >> >>,
       << << "C", "a", "m", "e", "r", "o", "o", "n" >>,
          << "C", "M", "R" >> >>,
       << << "C", "e", "n", "t", "r", "a", "l", " ", "A", "f", "r", "i",
             "c", "a", "n", " ", "R", "e", "p", "u", "b", "l", "i", "c" >>,
          << "C", "A", "F" >> >>,
       << << "C", "h", "a", "d" >>,
          << "T", "C", "D" >> >>,
       << << "C", "h", "i", "l", "e" >>,
          << "C", "H", "L" >> >>,
       << << "C", "h", "i", "n", "a" >>,
          << "C", "H", "N" >> >>,
       << << "C", "o", "l", "o", "m", "b", "i", "a" >>,
          << "C", "O", "L" >> >>,
       << << "C", "o", "s", "t", "a", " ", "R", "i", "c", "a" >>,
          << "C", "R", "I" >> >>,
       << << "C", "o", "t", "e", " ", "d", "'", "I", "v", "o", "i", "r",
             "e" >>,
          << "C", "I", "V" >> >>,
       << << "C", "o", "t", "e", " ", "d", "I", "v", "o", "i", "r", "e" >>,
          << "C", "I", "V" >> >>,
       << << "D", "j", "i", "b", "o", "u", "t", "i" >>,
          << "D", "J", "I" >> >>,
       << << "D", "o", "m", "i", "n", "i", "c", "a", "n", " ", "R", "e",
             "p", "u", "b", "l", "i", "c" >>,
          << "D", "O", "M" >> >>,
       << << "E", "c", "u", "a", "d", "o", "r" >>,
          << "E", "C", "U" >> >>,
       << << "E", "g", "y", "p", "t" >>,
          << "E", "G", "Y" >> >>,
       << << "E", "l", " ", "S", "a", "l", "v", "a", "d", "o", "r" >>,
          << "S", "L", "V" >> >>,
       << << "E", "r", "i", "t", "r", "e", "a" >>,
          << "E", "R", "I" >> >>,
       << << "E", "t", "h", "i", "o", "p", "i", "a" >>,
          << "E", "T", "H" >> >>,
       << << "G", "e", "o", "r", "g", "i", "a" >>,
          << "G", "E", "O" >> >>,
       << << "G", "h", "a", "n", "a" >>,
          << "G", "H", "A" >> >>,
       << << "G", "u", "a", "t", "e", "m", "a", "l", "a" >>,
          << "G", "T", "M" >> >>,
       << << "G", "u", "i", "n", "e", "a" >>,
          << "G", "I", "N" >> >>,
       << << "G", "u", "i", "n", "e", "a", "-", "B", "i", "s", "s", "a",
             "u" >>,
          << "G", "N", "B" >> >>,
       << << "H", "a", "i", "t", "i" >>,
          << "H", "T", "I" >> >>,
       << << "H", "o", "n", "d", "u", "r", "a", "s" >>,
          << "H", "N", "D" >> >>,
       << << "I", "n", "d", "i", "a" >>,
          << "I", "N", "D" >> >>,
       << << "I", "n", "d", "o", "n", "e", "s", "i", "a" >>,
          << "I", "D", "N" >> >>,
       << << "I", "r", "a", "q" >>,
          << "I", "R", "Q" >> >>,
       << << "I", "s", "r", "a", "e", "l" >>,
          << "I", "S", "R" >> >>,
       << << "J", "o", "r", "d", "a", "n" >>,
          << "J", "O", "R" >> >>,
       << << "K", "a", "z", "a", "k", "h", "s", "t", "a", "n" >>,
          << "K", "A", "Z" >> >>,
       << << "K", "e", "n", "y", "a" >>,
          << "K", "E", "N" >> >>,
       << << "L", "e", "b", "a", "n", "o", "n" >>,
          << "L", "B", "N" >> >>,
       << << "L", "i", "b", "e", "r", "i", "a" >>,
          << "L", "B", "R" >> >>,
       << << "L", "i", "b", "y", "a" >>,
          << "L", "B", "Y" >> >>,
       << << "M", "a", "d", "a", "g", "a", "s", "c", "a", "r" >>,
          << "M", "D", "G" >> >>,
       << << "M", "a", "l", "i" >>,
          << "M", "L", "I" >> >>,
       << << "M", "a", "u", "r", "i", "t", "a", "n", "i", "a" >>,
          << "M", "R", "T" >> >>,
       << << "M", "e", "x", "i", "c", "o" >>,
          << "M", "E", "X" >> >>,
       << << "M", "o", "r", "o", "c", "c", "o" >>,
          << "M", "A", "R" >> >>,
       << << "M", "o", "z", "a", "m", "b", "i", "q", "u", "e" >>,
          << "M", "O", "Z" >> >>,
       << << "M", "y", "a", "n", "m", "a", "r" >>,
          << "M", "M", "R" >> >>,
       << << "N", "e", "p", "a", "l" >>,
          << "N", "P", "L" >> >>,
       << << "N", "i", "c", "a", "r", "a", "g", "u", "a" >>,
          << "N", "I", "C" >> >>,
       << << "N", "i", "g", "e", "r" >>,
          << "N", "E", "R" >> >>,
       << << "N", "i", "g", "e", "r", "i", "a" >>,
          << "N", "G", "A" >> >>,
       << << "C", "z", "e", "c", "h", " ", "R", "e", "p", "u", "b", "l",
             "i", "c" >>,
          << "C", "Z", "E" >> >>,
       << << "C", "o", "n", "g", "o", "-", "B", "r", "a", "z", "z", "a",
             "v", "i", "l", "l", "e" >>,
          << "C", "O", "G" >> >>,
       << << "C", "o", "n", "g", "o", " ", "-", " ", "B", "r", "a", "z",
             "z", "a", "v", "i", "l", "l", "e" >>,
          << "C", "O", "G" >> >>,
       << << "C", "o", "n", "g", "o", "-", "K", "i", "n", "s", "h", "a",
             "s", "a" >>,
          << "C", "O", "D" >> >>,
       << << "C", "o", "n", "g", "o", " ", "-", " ", "K", "i", "n", "s",
             "h", "a", "s", "a" >>,
          << "C", "O", "D" >> >>,
       << << "D", "e", "m", "o", "c", "r", "a", "t", "i", "c", " ", "R",
             "e", "p", "u", "b", "l", "i", "c", " ", "o", "f", " ", "C",
             "o", "n", "g", "o" >>,
          << "C", "O", "D" >> >>,
       << << "D", "R", " ", "C", "o", "n", "g", "o" >>,
          << "C", "O", "D" >> >>,
       << << "P", "a", "k", "i", "s", "t", "a", "n" >>,
          << "P", "A", "K" >> >>,
       << << "P", "a", "l", "e", "s", "t", "i", "n", "e" >>,
          << "P", "S", "E" >> >>,
       << << "P", "a", "n", "a", "m", "a" >>,
          << "P", "A", "N" >> >>,
       << << "P", "a", "r", "a", "g", "u", "a", "y" >>,
          << "P", "R", "Y" >> >>,
       << << "P", "a", "p", "u", "a", " ", "N", "e", "w", " ", "G", "u",
             "i", "n", "e", "a" >>,
          << "P", "N", "G" >> >>,
       << << "P", "e", "r", "u" >>,
          << "P", "E", "R" >> >>,
       << << "P", "h", "i", "l", "i", "p", "p", "i", "n", "e", "s" >>,
          << "P", "H", "L" >> >>,
       << << "S", "e", "n", "e", "g", "a", "l" >>,
          << "S", "E", "N" >> >>,
       << << "S", "i", "e", "r", "r", "a", " ", "L", "e", "o", "n", "e" >>,
          << "S", "L", "E" >> >>,
       << << "S", "o", "m", "a", "l", "i", "a" >>,
          << "S", "O", "M" >> >>,
       << << "S", "o", "u", "t", "h", " ", "A", "f", "r", "i", "c", "a" >>,
          << "Z", "A", "F" >> >>,
       << << "S", "o", "u", "t", "h", " ", "S", "u", "d", "a", "n" >>,
          << "S", "S", "D" >> >>,
       << << "S", "r", "i", " ", "L", "a", "n", "k", "a" >>,
          << "L", "K", "A" >> >>,
       << << "S", "u", "d", "a", "n" >>,
          << "S", "D", "N" >> >>,
       << << "T", "a", "j", "i", "k", "i", "s", "t", "a", "n" >>,
          << "T", "J", "K" >> >>,
       << << "T", "h", "a", "i", "l", "a", "n", "d" >>,
          << "T", "H", "A" >> >>,
       << << "T", "u", "n", "i", "s", "i", "a" >>,
          << "T", "U", "N" >> >>,
       << << "U", "g", "a", "n", "d", "a" >>,
          << "U", "G", "A" >> >>,
       << << "U", "k", "r", "a", "i", "n", "e" >>,
          << "U", "K", "R" >> >>,
       << << "U", "n", "i", "t", "e", "d", " ", "S", "t", "a", "t", "e",
             "s" >>,
          << "U", "S", "A" >> >>,
       << << "V", "e", "n", "e", "z", "u", "e", "l", "a", ",", " ", "R",
             "B" >>,
          << "V", "E", "N" >> >>,
       << << "Y", "e", "m", "e", "n" >>,
          << "Y", "E", "M" >> >>,
       << << "Z", "a", "m", "b", "i", "a" >>,
          << "Z", "M", "B" >> >>,
       << << "Z", "i", "m", "b", "a", "b", "w", "e" >>,
          << "Z", "W", "E" >> >>,
       << << "E", "s", "w", "a", "t", "i", "n", "i" >>,
          << "S", "W", "Z" >> >>,
       << << "I", "r", "a", "n" >>,
          << "I", "R", "N" >> >>,
       << << "K", "y", "r", "g", "y", "z", " ", "R", "e", "p", "u", "b",
             "l", "i", "c" >>,
          << "K", "G", "Z" >> >>,
       << << "L", "a", "o", "s" >>,
          << "L", "A", "O" >> >>,
       << << "M", "i", "c", "r", "o", "n", "e", "s", "i", "a" >>,
          << "F", "S", "M" >> >>,
       << << "M", "o", "l", "d", "o", "v", "a" >>,
          << "M", "D", "A" >> >>,
       << << "N", "o", "r", "t", "h", " ", "K", "o", "r", "e", "a" >>,
          << "P", "R", "K" >> >>,
       << << "R", "u", "s", "s", "i", "a" >>,
          << "R", "U", "S" >> >>,
       << << "S", "y", "r", "i", "a" >>,
          << "S", "Y", "R" >> >>,
       << << "T", "a", "n", "z", "a", "n", "i", "a" >>,
          << "T", "Z", "A" >> >>,
       << << "T", "u", "r", "k", "e", "y" >>,
          << "T", "U", "R" >> >>,
       << << "V", "e", "n", "e", "z", "u", "e", "l", "a" >>,
          << "V", "E", "N" >> >>,
       << << "V", "i", "e", "t", "n", "a", "m" >>,
          << "V", "N", "M" >> >>,
       << << "W", "e", "s", "t", " ", "B", "a", "n", "k", " ", "a", "n",
             "d", " ", "G", "a", "z", "a" >>,
          << "P", "S", "E" >> >>,
       << << "Y", "e", "m", "e", "n", " ", "(", "N", "o", "r", "t", "h",
             ")" >>,
          << "Y", "E", "M" >> >>,
       << << "Y", "e", "m", "e", "n", " ", "(", "S", "o", "u", "t", "h",
             ")" >>,
          << "Y", "E", "M" >> >> >>

AliasLabels == {COUNTRY_ALIASES[i][1] : i \in DOMAIN COUNTRY_ALIASES}

\* self.COUNTRY_ALIASES[label]
AliasCode(label) ==
    COUNTRY_ALIASES[CHOOSE i \in DOMAIN COUNTRY_ALIASES :
                        COUNTRY_ALIASES[i][1] = label][2]

\* normalized_aliases (lines 478-480): a later entry of the table overwrites an
\* earlier one with the same normalized key
normalized_aliases ==
    [i \in DOMAIN COUNTRY_ALIASES |->
        <<normalize_country_name(COUNTRY_ALIASES[i][1]), COUNTRY_ALIASES[i][2]>>]

NormalizedAliasKeys ==
    {normalized_aliases[i][1] : i \in DOMAIN normalized_aliases}

NormalizedAliasCode(key) ==
    normalized_aliases[Max({i \in DOMAIN normalized_aliases :
                               normalized_aliases[i][1] = key})][2]

\* what _country_to_iso3 returns, with the resolvers it went through
Resolved(code_, consulted) == [code |-> Some(code_), consulted |-> consulted]
Unresolved(consulted) == [code |-> None, consulted |-> consulted]

\* re.sub(r"[^A-Za-z]", "", s).upper() (line 495)
LettersOf(s) ==
    Upper(SelectSeq(s, LAMBDA c : c \in LowerLetters \cup UpperLetters))

\* _country_to_iso3 with the alias table looked up before the hint
country_to_iso3_AliasFirst(country, iso3_hint, fuzzy) ==
    IF country.isNone \/ country.v = <<>> THEN Unresolved(<<>>)
    ELSE LET normalized == Strip(country.v)
             normalized_key == normalize_country_name(normalized)
             letters == LettersOf(normalized)
         IN  IF normalized \in AliasLabels
             THEN Resolved(AliasCode(normalized), <<"alias">>)
             ELSE IF ~iso3_hint.isNone /\ Len(iso3_hint.v) = 3
             THEN Resolved(Upper(iso3_hint.v), <<"alias", "hint">>)
             ELSE IF normalized_key \in NormalizedAliasKeys
             THEN Resolved(NormalizedAliasCode(normalized_key),
                           <<"alias", "hint", "normalized">>)
             ELSE IF fuzzy.found
             THEN Resolved(fuzzy.code,
                           <<"alias", "hint", "normalized", "fuzzy">>)
             ELSE IF Len(letters) = 3
             THEN Resolved(letters, <<"alias", "hint", "normalized", "fuzzy",
                                      "heuristic">>)
             ELSE Unresolved(<<"alias", "hint", "normalized", "fuzzy",
                               "heuristic">>)

\* _country_to_iso3 with the fuzzy lookup before the alias table
country_to_iso3_FuzzyFirst(country, iso3_hint, fuzzy) ==
    IF country.isNone \/ country.v = <<>> THEN Unresolved(<<>>)
    ELSE IF ~iso3_hint.isNone /\ Len(iso3_hint.v) = 3
    THEN Resolved(Upper(iso3_hint.v), <<"hint">>)
    ELSE LET normalized == Strip(country.v)
             normalized_key == normalize_country_name(normalized)
             letters == LettersOf(normalized)
         IN  IF fuzzy.found
             THEN Resolved(fuzzy.code, <<"hint", "fuzzy">>)
             ELSE IF normalized \in AliasLabels
             THEN Resolved(AliasCode(normalized), <<"hint", "fuzzy", "alias">>)
             ELSE IF normalized_key \in NormalizedAliasKeys
             THEN Resolved(NormalizedAliasCode(normalized_key),
                           <<"hint", "fuzzy", "alias", "normalized">>)
             ELSE IF Len(letters) = 3
             THEN Resolved(letters, <<"hint", "fuzzy", "alias", "normalized",
                                      "heuristic">>)
             ELSE Unresolved(<<"hint", "fuzzy", "alias", "normalized",
                               "heuristic">>)

\* Data360Service._country_to_iso3(country, iso3_hint); fuzzy is what the
\* pycountry lookup of lines 484-492 gives for the label
country_to_iso3(country, iso3_hint, fuzzy) ==
    IF country.isNone \/ country.v = <<>> THEN Unresolved(<<>>)
    ELSE IF ~iso3_hint.isNone /\ Len(iso3_hint.v) = 3
    THEN Resolved(Upper(iso3_hint.v), <<"hint">>)
    ELSE LET normalized == Strip(country.v)
             normalized_key == normalize_country_name(normalized)
             letters == LettersOf(normalized)
         IN  IF normalized \in AliasLabels
             THEN Resolved(AliasCode(normalized), <<"hint", "alias">>)
             ELSE IF normalized_key \in NormalizedAliasKeys
             THEN Resolved(NormalizedAliasCode(normalized_key),
                           <<"hint", "alias", "normalized">>)
             ELSE IF fuzzy.found
             THEN Resolved(fuzzy.code,
                           <<"hint", "alias", "normalized", "fuzzy">>)
             ELSE IF Len(letters) = 3
             THEN Resolved(letters, <<"hint", "alias", "normalized", "fuzzy",
                                      "heuristic">>)
             ELSE Unresolved(<<"hint", "alias", "normalized", "fuzzy",
                               "heuristic">>)

\* labels outside the alias table: padded, other case, with a diacritic,
\* other punctuation, unknown, an acronym, blank
OtherLabels ==
    { << " ", " ", "M", "a", "l", "i", " " >>,
      << "m", "a", "l", "i" >>,
      << "M", "A", "L", "I" >>,
      << "C", OCircumflex, "t", "e", " ", "d", "'", "I", "v", "o", "i", "r", "e" >>,
      << "C", "o", "t", "e", "-", "d", "-", "I", "v", "o", "i", "r", "e" >>,
      << "C", "o", "n", "g", "o", " ", "B", "r", "a", "z", "z", "a", "v", "i", "l", "l", "e" >>,
      << "A", "t", "l", "a", "n", "t", "i", "s" >>,
      << "U", ".", "S", ".", "A" >>,
      << " ", " ", " " >>,
      << "G", "u", "i", "n", "e", "a", " ", "B", "i", "s", "s", "a", "u" >> }

Countries == {None, Some(<<>>)} \cup {Some(l) : l \in AliasLabels \cup OtherLabels}

\* hints of _build_country_iso3_hints: none, empty, three letters, four
Hints == {None, Some(<<>>), Some(<<"x", "k", "s">>),
          Some(<<"C", "I", "V", "X">>)}

\* pycountry is missing or finds nothing, or finds a country
FuzzyAnswers == {[found |-> FALSE, code |-> <<>>],
                 [found |-> TRUE, code |-> <<"A", "T", "L">>]}

InitResolve ==
    /\ ChatIdle
    /\ AppIdle
    /\ cache = <<>>
    /\ fetch = <<>>
    /\ stored = <<>>
    /\ nextId = 1
    /\ quota = -1
    /\ fetches = 0
    /\ \E c \in Countries, h \in Hints, f \in FuzzyAnswers :
          resolution = [phase |-> "called", country |-> c, iso3_hint |-> h,
                        fuzzy |-> f, result |-> Unresolved(<<>>)]
    /\ norm = [phase |-> "idle"]

\* one call of _country_to_iso3 (lines 469-498)
Resolve ==
    /\ resolution.phase = "called"
    /\ resolution' =
           [resolution EXCEPT
               !.phase = "returned",
               !.result = country_to_iso3(resolution.country,
                                          resolution.iso3_hint,
                                          resolution.fuzzy)]
    /\ UNCHANGED <<appVars, chatVars, cache, fetch, stored, nextId, quota, fetches, norm>>

NextResolve == Resolve

SpecResolve == InitResolve /\ [][NextResolve]_vars

\* ------------------------------------------------------------------------
\* C17: labels of the alias table
\* ------------------------------------------------------------------------
\* the hint is one the resolver uses (line 472)
HintUsable(h) == ~h.isNone /\ Len(h.v) = 3

Consulted(name) ==
    \E i \in DOMAIN resolution.result.consulted :
        resolution.result.consulted[i] = name

\* a call for a label of the alias table has returned
AliasLabelResolved ==
    /\ resolution.phase = "returned"
    /\ ~resolution.country.isNone
    /\ resolution.country.v \in AliasLabels

\* C17 as stated: for every label of the alias table the resolution
\* returns the table's code and does not invoke the fuzzy lookup
C17_AliasLabelGetsAliasCode ==
    AliasLabelResolved =>
        /\ resolution.result.code = Some(AliasCode(resolution.country.v))
        /\ ~Consulted("fuzzy")

\* C17 amended: for every label of the alias table the resolution returns
\* the upper-cased dataset hint when a three-character hint is given and
\* the table's code otherwise, and never invokes the fuzzy lookup
C17_AliasCodeUnlessHint ==
    AliasLabelResolved =>
        /\ resolution.result.code =
              IF HintUsable(resolution.iso3_hint)
              THEN Some(Upper(resolution.iso3_hint.v))
              ELSE Some(AliasCode(resolution.country.v))
        /\ ~Consulted("fuzzy")

\* an alias label resolved from the table although the fuzzy lookup would
\* have answered and a hint of four characters was given
C17_Witness ==
    /\ AliasLabelResolved
    /\ resolution.fuzzy.found
    /\ ~resolution.iso3_hint.isNone
    /\ Len(resolution.iso3_hint.v) = 4
    /\ resolution.result.code = Some(<<"C", "I", "V">>)

\* ------------------------------------------------------------------------
\* C18: priority of the resolvers
\* ------------------------------------------------------------------------
ResolverOrder == <<"hint", "alias", "normalized", "fuzzy", "heuristic">>

\* what each resolver alone answers for the call, in the order above
ResolverAnswers ==
    LET label == Strip(resolution.country.v)
        key == normalize_country_name(label)
    IN  << IF HintUsable(resolution.iso3_hint)
           THEN Some(Upper(resolution.iso3_hint.v)) ELSE None,
           IF label \in AliasLabels THEN Some(AliasCode(label)) ELSE None,
           IF key \in NormalizedAliasKeys
           THEN Some(NormalizedAliasCode(key)) ELSE None,
           IF resolution.fuzzy.found THEN Some(resolution.fuzzy.code) ELSE None,
           IF Len(LettersOf(label)) = 3 THEN Some(LettersOf(label)) ELSE None >>

\* C18: the resolvers are tried in the order hint, alias, normalized alias,
\* fuzzy lookup, three-letter heuristic; the code is that of the first one
\* that answers, none after it is consulted, and an empty label gives none
\* without consulting any
C18_ResolverPriority ==
    resolution.phase = "returned" =>
        IF resolution.country.isNone \/ resolution.country.v = <<>>
        THEN resolution.result = Unresolved(<<>>)
        ELSE LET answering == {i \in DOMAIN ResolverOrder :
                                  ~ResolverAnswers[i].isNone}
             IN  IF answering = {}
                 THEN resolution.result = Unresolved(ResolverOrder)
                 ELSE /\ resolution.result.code =
                            ResolverAnswers[Min(answering)]
                      /\ resolution.result.consulted =
                            SubSeq(ResolverOrder, 1, Min(answering))

\* a label that only the three-letter heuristic resolves
C18_Witness ==
    /\ resolution.phase = "returned"
    /\ resolution.result.consulted = ResolverOrder
    /\ resolution.result.code = Some(<<"U", "S", "A">>)

\* ------------------------------------------------------------------------
\* Labels that differ by case, diacritics or punctuation
\* ------------------------------------------------------------------------
\* longest label drawn from the alphabet, and most edits made to a label
MaxLabelLen == 3
MaxEdits == 2

NormAlphabet == {"e", EAcute, OStroke, " ", "-", "&"}

\* a label of the alias table's kind, with a diacritic and an apostrophe
SampleLabel == <<"C", OCircumflex, "t", "e", " ", "d", "'", "I">>

Labels ==
    UNION {[1..n -> NormAlphabet] : n \in 0..MaxLabelLen} \cup {SampleLabel}

\* the other case of a letter, the letter with or without its diacritic
OtherCase(c) ==
    CASE c \in LowerLetters -> UpperChar(c)
      [] c \in UpperLetters -> LowerChar(c)
      [] c = EAcute -> EAcuteUpper
      [] c = EAcuteUpper -> EAcute
      [] OTHER -> c

OtherDiacritic(c) ==
    CASE c = "e" -> EAcute
      [] c = EAcute -> "e"
      [] c = "E" -> EAcuteUpper
      [] c = EAcuteUpper -> "E"
      [] c = "o" -> OCircumflex
      [] c = OCircumflex -> "o"
      [] OTHER -> c

\* punctuation marks, and the characters that separate words
Punctuation == {"'", "-", ".", "&"}
Separators == Punctuation \cup {" "}

Without(s, i) == SubSeq(s, 1, i - 1) \o SubSeq(s, i + 1, Len(s))

InitNormalize ==
    /\ ChatIdle
    /\ AppIdle
    /\ cache = <<>>
    /\ fetch = <<>>
    /\ stored = <<>>
    /\ nextId = 1
    /\ quota = -1
    /\ fetches = 0
    /\ resolution = [phase |-> "idle"]
    /\ \E l \in Labels :
          norm = [phase |-> "label", orig |-> l, label |-> l, edits |-> 0,
                  dropped |-> FALSE, ampersand |-> FALSE,
                  out |-> <<>>, again |-> <<>>]

\* the label is written with one character changed to c
Rewrite(i, c) ==
    /\ norm.phase = "label"
    /\ norm.edits < MaxEdits
    /\ c # norm.label[i]
    /\ norm' = [norm EXCEPT !.label[i] = c, !.edits = @ + 1,
                   !.ampersand = @ \/ c = "&" \/ norm.label[i] = "&"]
    /\ UNCHANGED <<appVars, chatVars, cache, fetch, stored, nextId, quota, fetches,
                   resolution>>

\* another spelling of the label: a letter in the other case
ChangeCase ==
    \E i \in DOMAIN norm.label : Rewrite(i, OtherCase(norm.label[i]))

\* another spelling: a letter with or without its diacritic
ChangeDiacritic ==
    \E i \in DOMAIN norm.label : Rewrite(i, OtherDiacritic(norm.label[i]))

\* another spelling: a punctuation mark or space replaced by another
ChangePunctuation ==
    \E i \in DOMAIN norm.label :
        /\ norm.label[i] \in Separators
        /\ \E c \in Separators : Rewrite(i, c)

\* another spelling: a punctuation mark left out
DropPunctuation ==
    /\ norm.phase = "label"
    /\ norm.edits < MaxEdits
    /\ \E i \in DOMAIN norm.label :
         /\ norm.label[i] \in Punctuation
         /\ norm' = [norm EXCEPT !.label = Without(norm.label, i),
                        !.edits = @ + 1, !.dropped = TRUE]
    /\ UNCHANGED <<appVars, chatVars, cache, fetch, stored, nextId, quota, fetches,
                   resolution>>

\* _normalize_country_name(label) (lines 537-546)
NormalizeLabel ==
    /\ norm.phase = "label"
    /\ norm' = [norm EXCEPT !.phase = "normalized",
                   !.out = normalize_country_name(norm.label)]
    /\ UNCHANGED <<appVars, chatVars, cache, fetch, stored, nextId, quota, fetches,
                   resolution>>

\* the canonical form is normalized once more, as _country_to_iso3 does
\* with the keys of the alias table (lines 477-480)
NormalizeAgain ==
    /\ norm.phase = "normalized"
    /\ norm' = [norm EXCEPT !.phase = "again",
                   !.again = normalize_country_name(norm.out)]
    /\ UNCHANGED <<appVars, chatVars, cache, fetch, stored, nextId, quota, fetches,
                   resolution>>

NextNormalize ==
    \/ ChangeCase
    \/ ChangeDiacritic
    \/ ChangePunctuation
    \/ DropPunctuation
    \/ NormalizeLabel
    \/ NormalizeAgain

SpecNormalize == InitNormalize /\ [][NextNormalize]_vars

\* ------------------------------------------------------------------------
\* C19: spellings of one label share a canonical form
\* ------------------------------------------------------------------------
Normalized == norm.phase \in {"normalized", "again"}

C20_NormalizationIdempotent ==
    norm.phase = "again" => norm.again = norm.out

\* a label whose canonical form is longer than the label and differs from
\* it, normalized twice
C20_Witness ==
    /\ norm.phase = "again"
    /\ norm.label = <<"E", "&", EAcute>>
    /\ norm.out = <<"e", " ", "a", "n", "d", " ", "e">>
    /\ norm.again = norm.out

\* ------------------------------------------------------------------------
\* The dataset builders: build_population_for_acled and
\* build_wdi_dataset_for_query (data360_service.py 196-261, 332-395)
\* ------------------------------------------------------------------------
\* defaults of the two builders' country limits
max_fallback_countries == 20
max_countries == 5

\* labels the two warnings of build_population_for_acled name at most
UnresolvedShown == 12
NoDataShown == 8

\* most distinct countries the dataset of a checked call holds
MaxFrequent == 21

\* a numeric cell: NaN (or <NA>) and a number
NaN == [isNone |-> TRUE, n |-> 0]
Num(n) == [isNone |-> FALSE, n |-> n]

DigitValue(c) == CHOOSE d \in 0..9 : <<"0", "1", "2", "3", "4", "5", "6", "7", "8", "9">>[d + 1] = c

RECURSIVE Decimal(_)
Decimal(t) ==
    IF t = <<>> THEN 0
    ELSE 10 * Decimal(SubSeq(t, 1, Len(t) - 1)) + DigitValue(t[Len(t)])

\* pd.to_numeric(x, errors="coerce") of one cell holding None or a text of
\* digits or of other characters
to_numeric(x) ==
    IF x.isNone \/ x.v = <<>> \/ \E i \in DOMAIN x.v : ~IsDigit(x.v[i])
    THEN NaN
    ELSE Num(Decimal(x.v))

\* the characters of the labels and codes, in code point order
CodePoints ==
    << " ", "'", "-", "A", "B", "C", "D", "E", "F", "G", "H", "I", "J", "K",
       "L", "M", "N", "O", "P", "Q", "R", "S", "T", "U", "V", "W", "X", "Y",
       "Z", "_", "a", "b", "c", "d", "e", "f", "g", "h", "i", "j", "k", "l",
       "m", "n", "o", "p", "q", "r", "s", "t", "u", "v", "w", "x", "y", "z" >>

Ord(c) == CHOOSE i \in DOMAIN CodePoints : CodePoints[i] = c

\* a < b for two str values
TextLess(a, b) ==
    \E i \in 1..(Min({Len(a), Len(b)}) + 1) :
        /\ \A j \in 1..(i - 1) : a[j] = b[j]
        /\ IF i > Len(a) THEN i <= Len(b)
           ELSE i <= Len(b) /\ Ord(a[i]) < Ord(b[i])

\* sorted(S) of a set of str values
RECURSIVE SortedTexts(_)
SortedTexts(S) ==
    IF S = {} THEN <<>>
    ELSE LET m == CHOOSE x \in S : \A y \in S \ {x} : TextLess(x, y)
         IN  <<m>> \o SortedTexts(S \ {m})

\* one item of the "value" list of a Data360 reply
Item(area, period, obs) ==
    [REF_AREA |-> area, TIME_PERIOD |-> period, OBS_VALUE |-> obs]

\* _fetch_indicator_rows, lines 440-448: the row appended for each item
FetchedRows(items, indicator, iso3) ==
    [i \in DOMAIN items |->
        [iso3 |-> IF ~items[i].REF_AREA.isNone /\ items[i].REF_AREA.v # <<>>
                  THEN items[i].REF_AREA ELSE iso3,
         indicator |-> indicator,
         year |-> items[i].TIME_PERIOD,
         value |-> items[i].OBS_VALUE]]

Y2000 == Some(<< "2", "0", "0", "0" >>)
Y2001 == Some(<< "2", "0", "0", "1" >>)
TCD == << "T", "C", "D" >>
AFG == << "A", "F", "G" >>

\* item lists of a reply: one item, a repeated year, years out of order
\* with a repeat, cells that are missing or not numeric, and the items of
\* an unfiltered query
OneItem == << Item(None, Y2000, Some(<<"1">>)) >>
RepeatedYear ==
    << Item(None, Y2000, Some(<<"1">>)), Item(None, Y2000, Some(<<"2">>)) >>
OutOfOrder ==
    << Item(None, Y2001, Some(<<"1">>)), Item(None, Y2000, Some(<<"2">>)),
       Item(None, Y2001, Some(<<"3">>)) >>
MissingCells ==
    << Item(None, None, Some(<<"1">>)), Item(None, Y2000, None),
       Item(None, Some(<<"x">>), Some(<<"2">>)) >>
AllAreas ==
    << Item(Some(TCD), Y2000, Some(<<"1">>)),
       Item(Some(AFG), Y2000, Some(<<"1">>)),
       Item(None, Y2000, Some(<<"2">>)),
       Item(Some(TCD), Y2000, Some(<<"3">>)) >>

\* what one call of _fetch_indicator_rows meets: the items gathered and how
\* the loop ended ("short": a page below PAGE_SIZE, "empty": an empty page,
\* "cap": MAX_PAGES_PER_QUERY passed, "repeat": the repeated-page guard,
\* "raise": raise_for_status or the request raised)
Outcome(stop, items) == [stop |-> stop, items |-> items]

GuardStops == {"cap", "repeat"}

\* the remote service of a checked call: its answer for Chad, for every
\* other country, and for a query without REF_AREA
Servers ==
    [tcd : {Outcome("empty", <<>>), Outcome("short", OneItem),
            Outcome("short", RepeatedYear), Outcome("short", OutOfOrder),
            Outcome("short", MissingCells), Outcome("cap", OutOfOrder),
            Outcome("repeat", RepeatedYear), Outcome("raise", <<>>)},
     rest : {Outcome("short", OneItem), Outcome("empty", <<>>)},
     all : {Outcome("short", AllAreas), Outcome("cap", AllAreas),
            Outcome("empty", <<>>)}]

\* the outcome of _fetch_indicator_rows(indicator, iso3, ...) on this server
ServerReply(server, iso3) ==
    IF iso3.isNone \/ iso3.v = <<>> THEN server.all
    ELSE IF iso3.v = TCD THEN server.tcd
    ELSE server.rest

Atlantis == << "A", "t", "l", "a", "n", "t", "i", "s" >>
Chad == << "C", "h", "a", "d" >>
MaliPadded == << " ", "M", "a", "l", "i", " " >>

\* df: None, or whether it has a "country" column and the value_counts() of
\* its stripped labels, most frequent first
NoFrame == [isNone |-> TRUE, hasCountry |-> FALSE, frequent |-> <<>>]
Frame(hasCountry_, frequent) ==
    [isNone |-> FALSE, hasCountry |-> hasCountry_, frequent |-> frequent]

\* the n most frequent labels of a checked dataset: labels of the alias
\* table with an unknown label in second place
FrequentLabels(n) ==
    [i \in 1..n |-> IF i = 2 THEN Atlantis ELSE COUNTRY_ALIASES[i][1]]

\* sizes of the checked datasets: up to and beyond each builder's limit
FrequentSizes == {0, 2, 3, max_countries + 1, MaxFrequent}

Frames ==
    {Frame(FALSE, <<>>)}
    \cup {Frame(TRUE, FrequentLabels(n)) : n \in FrequentSizes}

\* requested_countries: None, or a list of labels
RequestedCountries ==
    { None, Some(<<>>), Some(<<Chad>>), Some(<<Atlantis>>),
      Some(<<MaliPadded, Chad, <<" ">> >>), Some(<<Atlantis, Chad>>) }

\* pycountry is not installed
NoFuzzy == [found |-> FALSE, code |-> <<>>]

\* self._country_to_iso3(country, iso3_hint=...) for a dataset without an
\* ISO column
Iso3Of(country) == country_to_iso3(Some(country), None, NoFuzzy).code

Warning(kind, names, n, more) ==
    [kind |-> kind, names |-> names, n |-> n, more |-> more]

\* df.dropna(subset=cols) on rows whose cells are Optional values
dropna(rows, cols) ==
    SelectSeq(rows, LAMBDA r : \A c \in cols : ~r[c].isNone)

\* the sort key of a row by a text column and the year
KeyLess(by, r, s) ==
    \/ TextLess(r[by].v, s[by].v)
    \/ r[by].v = s[by].v /\ r.year.n < s.year.n

\* df.sort_values([by, "year"]): rows with equal keys keep their order
sort_values(rows, by) ==
    LET before(i, j) ==
            \/ KeyLess(by, rows[i], rows[j])
            \/ ~KeyLess(by, rows[j], rows[i]) /\ i < j
        rank(i) == 1 + Cardinality({j \in DOMAIN rows : j # i /\ before(j, i)})
    IN  [k \in DOMAIN rows |-> rows[CHOOSE i \in DOMAIN rows : rank(i) = k]]

SameKey(by, r, s) == r[by] = s[by] /\ r.year = s.year

\* df.drop_duplicates([by, "year"], keep="first")
drop_duplicates_KeepFirst(rows, by) ==
    Pick(rows, {i \in DOMAIN rows :
                   \A j \in 1..(i - 1) : ~SameKey(by, rows[i], rows[j])})

\* df.drop_duplicates([by, "year"], keep="last")
drop_duplicates(rows, by) ==
    Pick(rows, {i \in DOMAIN rows :
                   \A j \in (i + 1)..Len(rows) : ~SameKey(by, rows[i], rows[j])})

\* Data360Service.INDICATOR_HINTS, in the order of the dict
INDICATOR_HINTS ==
    << << << "p", "o", "v", "e", "r", "t", "y" >>,
          << "W", "B", "_", "W", "D", "I", "_", "S", "I", "_", "P", "O", "V", "_", "D", "D", "A", "Y" >> >>,
       << << "p", "o", "v", "e", "r", "t", "y", " ", "h", "e", "a", "d", "c", "o", "u", "n", "t" >>,
          << "W", "B", "_", "W", "D", "I", "_", "S", "I", "_", "P", "O", "V", "_", "D", "D", "A", "Y" >> >>,
       << << "g", "d", "p", " ", "p", "e", "r", " ", "c", "a", "p", "i", "t", "a" >>,
          << "W", "B", "_", "W", "D", "I", "_", "N", "Y", "_", "G", "D", "P", "_", "P", "C", "A", "P", "_", "C", "D" >> >>,
       << << "i", "n", "f", "l", "a", "t", "i", "o", "n" >>,
          << "W", "B", "_", "W", "D", "I", "_", "F", "P", "_", "C", "P", "I", "_", "T", "O", "T", "L", "_", "Z", "G" >> >>,
       << << "u", "n", "e", "m", "p", "l", "o", "y", "m", "e", "n", "t" >>,
          << "W", "B", "_", "W", "D", "I", "_", "S", "L", "_", "U", "E", "M", "_", "T", "O", "T", "L", "_", "Z", "S" >> >>,
       << << "p", "o", "p", "u", "l", "a", "t", "i", "o", "n" >>,
          << "W", "B", "_", "W", "D", "I", "_", "S", "P", "_", "P", "O", "P", "_", "T", "O", "T", "L" >> >> >>

CodePrefix == << "W", "B", "_", "W", "D", "I", "_" >>

\* \w of the pattern, for the characters of the checked messages
IsCodeChar(c) == c \in UpperLetters \/ IsDigit(c) \/ c = "_"
IsWordChar(c) == IsAlnum(c) \/ c = "_"

\* re.search(r"\bWB_WDI_[A-Z0-9_]+\b", text): the leftmost match, if any
SearchIndicatorCode(text) ==
    LET n == Len(CodePrefix)
        runEnd(i) ==
            Min({j \in (i + n)..(Len(text) + 1) :
                    j = Len(text) + 1 \/ ~IsCodeChar(text[j])})
        matches(i) ==
            /\ i + n - 1 <= Len(text)
            /\ SubSeq(text, i, i + n - 1) = CodePrefix
            /\ i = 1 \/ ~IsWordChar(text[i - 1])
            /\ runEnd(i) > i + n
            /\ runEnd(i) = Len(text) + 1 \/ ~IsWordChar(text[runEnd(i)])
        starts == {i \in 1..Len(text) : matches(i)}
    IN  IF starts = {} THEN None
        ELSE Some(SubSeq(text, Min(starts), runEnd(Min(starts)) - 1))

\* the indicator of the first key of INDICATOR_HINTS that lower contains
FirstHint(lower) ==
    LET hits == {i \in DOMAIN INDICATOR_HINTS :
                    Contains(lower, INDICATOR_HINTS[i][1])}
    IN  IF hits = {} THEN None ELSE Some(INDICATOR_HINTS[Min(hits)][2])

\* _resolve_indicator_from_message with the keywords tried before the code
resolve_indicator_from_message_KeywordFirst(user_message) ==
    LET text == Strip(user_message)
        hint == FirstHint(Lower(text))
    IN  IF ~hint.isNone THEN hint ELSE SearchIndicatorCode(Upper(text))

\* Data360Service._resolve_indicator_from_message(user_message)
resolve_indicator_from_message(user_message) ==
    LET text == Strip(user_message)
        match == SearchIndicatorCode(Upper(text))
    IN  IF ~match.isNone THEN match ELSE FirstHint(Lower(text))

\* a canonical code after a keyword
MsgCodeAndKeyword == << "p", "o", "v", "e", "r", "t", "y", " ", "W", "B", "_", "W", "D", "I", "_", "X", "1", " ", "n", "o", "w" >>

\* a code in lower case before a keyword
MsgLowerCode == << "w", "b", "_", "w", "d", "i", "_", "x", "1", " ", "i", "n", "f", "l", "a", "t", "i", "o", "n" >>

\* two keywords, the later one earlier in the table
MsgTwoKeywords == << "p", "o", "p", "u", "l", "a", "t", "i", "o", "n", ",", " ", "p", "o", "v", "e", "r", "t", "y", " ", "h", "e", "a", "d", "c", "o", "u", "n", "t" >>

\* a keyword and the bare prefix of a code
MsgKeyword == << "g", "d", "p", " ", "p", "e", "r", " ", "c", "a", "p", "i", "t", "a", " ", "W", "B", "_", "W", "D", "I", "_" >>

\* a code inside a longer word
MsgInsideWord == << "x", "W", "B", "_", "W", "D", "I", "_", "X", "1" >>

\* neither
MsgNoIndicator == << "h", "e", "l", "l", "o" >>

IndicatorMessages ==
    { MsgCodeAndKeyword, MsgLowerCode, MsgTwoKeywords, MsgKeyword,
      MsgInsideWord, MsgNoIndicator }

\* what a builder returns, with what it did on the way: the countries it
\* went through, the arguments of its calls of _fetch_indicator_rows in
\* order, how each of them ended, and the concatenated frame before dropna
BuilderResult(raised, table, indicator, warnings, countries, fetched, stops, concat) ==
    [raised |-> raised, table |-> table, indicator |-> indicator,
     warnings |-> warnings, countries |-> countries, fetched |-> fetched,
     stops |-> stops, concat |-> concat]

BuilderRaised(countries, fetched, stops) ==
    BuilderResult(TRUE, <<>>, None, <<>>, countries, fetched, stops, <<>>)

Range(s) == {s[i] : i \in DOMAIN s}

\* lines 252-261 with drop_duplicates keeping the first row of each key
PopulationTable_KeepFirst(concat) ==
    drop_duplicates_KeepFirst(
        sort_values(dropna(concat, {"country", "year", "population"}),
                    "country"),
        "country")

\* lines 252-261: the population table made of the concatenated frames
PopulationTable(concat) ==
    drop_duplicates(
        sort_values(dropna(concat, {"country", "year", "population"}),
                    "country"),
        "country")

\* lines 389-394: the indicator table made of the concatenated frames
WdiTable(concat) ==
    drop_duplicates(
        sort_values(dropna(concat, {"iso3", "year", "value"}), "iso3"),
        "iso3")

\* lines 221-261 of build_population_for_acled: the loop over the countries
\* with the code _country_to_iso3 gave for each, then the warnings and the
\* table; named: the countries come from requested_countries
PopulationForCodes(named, countries, iso3, server) ==
    LET unresolved == {i \in DOMAIN countries : iso3[i].isNone}
        resolved == DOMAIN countries \ unresolved
        reply == [i \in DOMAIN countries |-> ServerReply(server, iso3[i])]
        failed == {i \in resolved : reply[i].stop = "raise"}
        called == IF failed = {} THEN resolved
                  ELSE {i \in resolved : i <= Min(failed)}
        no_data == {i \in resolved : reply[i].items = <<>>}
        country_df(i) ==
            LET rows == FetchedRows(reply[i].items, INDICATOR, iso3[i])
            IN  [k \in DOMAIN rows |->
                    [iso3 |-> rows[k].iso3,
                     year |-> to_numeric(rows[k].year),
                     population |-> to_numeric(rows[k].value),
                     country |-> Some(countries[i])]]
        concat == Concat(Pick([i \in DOMAIN countries |-> country_df(i)],
                              resolved \ no_data))
        warnings ==
            (IF named THEN <<>>
             ELSE <<Warning("fallback", <<>>, Len(countries), FALSE)>>)
            \o (IF unresolved = {} THEN <<>>
                ELSE << Warning("unresolved",
                                Take(Pick(countries, unresolved),
                                     UnresolvedShown),
                                0, Cardinality(unresolved) > UnresolvedShown),
                        Warning("tip", <<>>, 0, FALSE) >>)
            \o (IF no_data = {} THEN <<>>
                ELSE << Warning("no_data",
                                Take(Pick(countries, no_data), NoDataShown),
                                0, Cardinality(no_data) > NoDataShown) >>)
        fetched == Pick(iso3, called)
        stops == Pick([i \in DOMAIN countries |-> reply[i].stop], called)
    IN  IF failed # {} THEN BuilderRaised(countries, fetched, stops)
        ELSE BuilderResult(FALSE, PopulationTable(concat), None, warnings,
                           countries, fetched, stops, concat)

\* lines 224-225: the code of each country of the list
PopulationForCountries(named, countries, server) ==
    PopulationForCodes(named, countries,
                       [i \in DOMAIN countries |-> Iso3Of(countries[i])],
                       server)

\* Data360Service.build_population_for_acled(df, requested_countries)
PopulationFetchResult(df, requested_countries, server) ==
    IF ~df.hasCountry
    THEN BuilderResult(FALSE, <<>>, None,
                       <<Warning("no_country", <<>>, 0, FALSE)>>,
                       <<>>, <<>>, <<>>, <<>>)
    ELSE IF ~requested_countries.isNone /\ requested_countries.v # <<>>
    THEN PopulationForCountries(
             TRUE,
             SortedTexts({Strip(c) : c \in Range(requested_countries.v)}
                         \ {<<>>}),
             server)
    ELSE PopulationForCountries(
             FALSE, Take(df.frequent, max_fallback_countries), server)

\* lines 374-395 of build_wdi_dataset_for_query: the fetches for iso3_list,
\* or the one fetch without a country when the list is empty, and the table
WdiForCodes(indicator, warnings, countries, iso3_list, server) ==
    LET fetched == IF iso3_list = <<>> THEN <<None>>
                   ELSE [i \in DOMAIN iso3_list |-> Some(iso3_list[i])]
        reply == [i \in DOMAIN fetched |-> ServerReply(server, fetched[i])]
        failed == {i \in DOMAIN fetched : reply[i].stop = "raise"}
        called == IF failed = {} THEN DOMAIN fetched
                  ELSE {i \in DOMAIN fetched : i <= Min(failed)}
        frame(i) ==
            LET rows == FetchedRows(reply[i].items, indicator.v, fetched[i])
            IN  [k \in DOMAIN rows |->
                    [iso3 |-> rows[k].iso3,
                     indicator |-> rows[k].indicator,
                     year |-> to_numeric(rows[k].year),
                     value |-> to_numeric(rows[k].value)]]
        frames == {i \in DOMAIN fetched : reply[i].items # <<>>}
        concat == Concat(Pick([i \in DOMAIN fetched |-> frame(i)], frames))
        stops == Pick([i \in DOMAIN fetched |-> reply[i].stop], called)
    IN  IF failed # {}
        THEN BuilderRaised(countries, Pick(fetched, called), stops)
        ELSE IF frames = {}
        THEN BuilderResult(FALSE, <<>>, indicator,
                           warnings \o <<Warning("no_rows", <<>>, 0, FALSE)>>,
                           countries, fetched, stops, <<>>)
        ELSE BuilderResult(FALSE, WdiTable(concat), indicator, warnings,
                           countries, fetched, stops, concat)

\* lines 351-372: iso3_list, from requested_countries or from the most
\* frequent countries of df; fallback: the second branch is taken
WdiForCountries(indicator, fallback, countries, server) ==
    WdiForCodes(
        indicator,
        IF fallback
        THEN <<Warning("fallback", <<>>, Len(countries), FALSE)>>
        ELSE <<>>,
        countries,
        SortedTexts({c.v : c \in {Iso3Of(countries[i]) :
                                      i \in DOMAIN countries} \ {None}}),
        server)

\* lines 334-345 and what follows once the indicator is known
WdiForIndicator(indicator, df, requested_countries, server) ==
    IF indicator.isNone
    THEN BuilderResult(FALSE, <<>>, None,
                       <<Warning("no_indicator", <<>>, 0, FALSE)>>,
                       <<>>, <<>>, <<>>, <<>>)
    ELSE IF ~requested_countries.isNone /\ requested_countries.v # <<>>
    THEN WdiForCountries(indicator, FALSE, requested_countries.v, server)
    ELSE IF ~df.isNone /\ df.hasCountry
    THEN WdiForCountries(indicator, TRUE, Take(df.frequent, max_countries),
                         server)
    ELSE WdiForCountries(indicator, FALSE, <<>>, server)

\* Data360Service.build_wdi_dataset_for_query(user_message, df,
\* requested_countries)
WdiFetchResult(user_message, df, requested_countries, server) ==
    WdiForIndicator(resolve_indicator_from_message(user_message), df,
                    requested_countries, server)

\* one call of a builder with these arguments on this server
BuilderCalls ==
    { c \in [builder : {"population", "wdi"},
             user_message : IndicatorMessages,
             df : Frames \cup {NoFrame},
             requested_countries : RequestedCountries,
             server : Servers] :
        c.builder = "population" =>
            c.user_message = MsgNoIndicator /\ ~c.df.isNone }

InitBuild ==
    /\ ChatIdle
    /\ ServiceIdle
    /\ build \in [phase : {"called"}, call : BuilderCalls,
                  result : {BuilderRaised(<<>>, <<>>, <<>>)}]
    /\ sessions = <<>>
    /\ connections = <<>>
    /\ lastRequest = [op |-> "none"]
    /\ llm = LLMService({}, {})
    /\ profiling = [phase |-> "idle"]
    /\ run = [pc |-> "idle"]

BuilderReturned(result) ==
    /\ build.phase = "called"
    /\ build' = [build EXCEPT !.phase = "done", !.result = result]
    /\ UNCHANGED <<chatVars, svcVars, sessions, connections, lastRequest, llm, profiling, run>>

\* build_population_for_acled returns or raises
BuildPopulation ==
    /\ build.call.builder = "population"
    /\ BuilderReturned(PopulationFetchResult(build.call.df,
                                      build.call.requested_countries,
                                      build.call.server))

\* build_wdi_dataset_for_query returns or raises
BuildWdi ==
    /\ build.call.builder = "wdi"
    /\ BuilderReturned(WdiFetchResult(build.call.user_message, build.call.df,
                               build.call.requested_countries,
                               build.call.server))

NextBuild ==
    \/ BuildPopulation
    \/ BuildWdi

SpecBuild == InitBuild /\ [][NextBuild]_vars

\* a builder call has returned a result
BuilderDone(builder) ==
    /\ build.phase = "done"
    /\ build.call.builder = builder
    /\ ~build.result.raised

CompleteRow(r, cols) == \A c \in cols : ~r[c].isNone

\* table holds, in the order of (by, year), exactly the last complete row
\* of concat for each key
LastWriteWins(table, concat, by, cols) ==
    /\ \A i \in DOMAIN table : CompleteRow(table[i], cols)
    /\ \A i, j \in DOMAIN table :
           i < j => KeyLess(by, table[i], table[j])
    /\ \A i \in DOMAIN table :
           \E k \in DOMAIN concat :
               /\ concat[k] = table[i]
               /\ \A m \in (k + 1)..Len(concat) :
                      CompleteRow(concat[m], cols)
                          => ~SameKey(by, concat[m], concat[k])
    /\ \A k \in DOMAIN concat :
           CompleteRow(concat[k], cols)
               => \E i \in DOMAIN table : SameKey(by, table[i], concat[k])

\* C21: the population table has at most one row per (country, year), which
\* is the last complete row fetched for that key, has no row with a missing
\* country, year or population and is sorted by (country, year); the
\* indicator table has at most one row per (iso3, year) under the same
\* policy.
C21_TablesDeduplicated ==
    /\ BuilderDone("population")
           => LastWriteWins(build.result.table, build.result.concat,
                            "country", {"country", "year", "population"})
    /\ BuilderDone("wdi")
           => LastWriteWins(build.result.table, build.result.concat,
                            "iso3", {"iso3", "year", "value"})

\* a population table built from frames that repeat a key with another
\* value, hold incomplete rows and arrive out of order
C21_Witness ==
    /\ BuilderDone("population")
    /\ Len(build.result.table) >= 2
    /\ \E k, m \in DOMAIN build.result.concat :
           /\ k < m
           /\ SameKey("country", build.result.concat[k], build.result.concat[m])
           /\ build.result.concat[k].population
                  # build.result.concat[m].population
           /\ build.result.concat[m] \in Range(build.result.table)
    /\ \E k, m \in DOMAIN build.result.concat :
           /\ k < m
           /\ KeyLess("country", build.result.concat[m], build.result.concat[k])

\* the countries of the list for which _country_to_iso3 gives no code
UnresolvedCountries(countries) ==
    {countries[i] : i \in {j \in DOMAIN countries : Iso3Of(countries[j]).isNone}}

\* the builder went through a list of countries, one of them without a code
MetUnresolved ==
    /\ build.phase = "done"
    /\ ~build.result.raised
    /\ UnresolvedCountries(build.result.countries) # {}

HasWarning(kind) ==
    \E i \in DOMAIN build.result.warnings : build.result.warnings[i].kind = kind

\* C22: in both builders a candidate country without a code is reported in
\* a warning and contributes no rows: the population table has no row of
\* that country, and the indicator builder makes no fetch on its behalf.
C22_UnresolvedReported ==
    MetUnresolved =>
        /\ HasWarning("unresolved")
        /\ build.call.builder = "population" =>
               \A i \in DOMAIN build.result.table :
                   build.result.table[i].country.v
                       \notin UnresolvedCountries(build.result.countries)
        /\ build.call.builder = "wdi" =>
               None \notin Range(build.result.fetched)

\* a fetch of the returned result ended at MAX_PAGES_PER_QUERY or at the
\* repeated-page guard
GuardExhausted ==
    /\ build.phase = "done"
    /\ ~build.result.raised
    /\ \E i \in DOMAIN build.result.stops : build.result.stops[i] \in GuardStops

\* C23: when a fetch of a builder stopped at the page limit or at the
\* repeated-page guard, the result of the builder carries a warning that
\* says so.
C23_GuardExhaustionWarned ==
    GuardExhausted => HasWarning("pagination")

\* the call names countries: requested_countries is a non-empty list
CountriesNamed ==
    /\ ~build.call.requested_countries.isNone
    /\ build.call.requested_countries.v # <<>>

\* a builder went on to choose its countries and returned
ChoseCountries ==
    /\ build.phase = "done"
    /\ ~build.result.raised
    /\ build.call.builder = "population" => build.call.df.hasCountry
    /\ build.call.builder = "wdi" => ~build.result.indicator.isNone

FallbackLimit ==
    IF build.call.builder = "population" THEN max_fallback_countries
    ELSE max_countries

\* C24: a call that names no countries fetches for at most N countries, one
\* fetch per country (N = 20 for population, 5 for the indicator builder),
\* and its result carries the top-N warning; a call that names countries
\* carries no such warning.
C24_TopNWhenUnnamed ==
    ChoseCountries =>
        IF CountriesNamed THEN ~HasWarning("fallback")
        ELSE /\ HasWarning("fallback")
             /\ Len(build.result.fetched) <= FallbackLimit
             /\ None \notin Range(build.result.fetched)

\* the indicator builder returned
WdiReturned ==
    /\ build.phase = "done"
    /\ build.call.builder = "wdi"
    /\ ~build.result.raised

\* the canonical code and the keyword indicator the message holds, if any
CodeInMessage == SearchIndicatorCode(Upper(Strip(build.call.user_message)))
KeywordInMessage == FirstHint(Lower(Strip(build.call.user_message)))

\* C25: the indicator of a message is the canonical code it holds, even
\* when it also holds keyword phrases; without a code, the indicator of the
\* first keyword phrase of the table it holds; without either, the builder
\* returns the could-not-infer warning, an empty table and no indicator,
\* and makes no fetch.
C25_IndicatorPrecedence ==
    WdiReturned =>
        IF ~CodeInMessage.isNone
        THEN build.result.indicator = CodeInMessage
        ELSE IF ~KeywordInMessage.isNone
        THEN build.result.indicator = KeywordInMessage
        ELSE /\ build.result.indicator = None
             /\ build.result.warnings
                    = <<Warning("no_indicator", <<>>, 0, FALSE)>>
             /\ build.result.table = <<>>
             /\ build.result.fetched = <<>>

\* a message with a keyword phrase before a canonical code got the code
C25_Witness ==
    /\ WdiReturned
    /\ build.call.user_message = MsgCodeAndKeyword
    /\ ~KeywordInMessage.isNone
    /\ build.result.indicator = Some(<<"W", "B", "_", "W", "D", "I", "_", "X", "1">>)
    /\ build.result.indicator # KeywordInMessage
    /\ build.result.fetched # <<>>

\* ------------------------------------------------------------------------
\* Sessions: DataLoader.sessions, SQLService.connections and the endpoints
\* of main.py that change them
\* ------------------------------------------------------------------------
\* session ids a request may carry ("": none given) and the datasets and
\* connection strings of a checked run
RequestSessionIds == {"", "default", "s1", "s2"}
Datasets == {"d1", "d2"}
ConnectionStrings == {"c1", "c2"}

\* request.session_id or "default"
SessionOf(session_id) == IF session_id = "" THEN "default" ELSE session_id

\* a dict with key k set to v, and with key k deleted
DictSet(d, k, v) == [x \in DOMAIN d \cup {k} |-> IF x = k THEN v ELSE d[x]]
DictDel(d, k) == [x \in DOMAIN d \ {k} |-> d[x]]

\* store_data that keeps the dataset a session already holds
store_data_KeepFirst(sessions_, session_id, df) ==
    IF session_id \in DOMAIN sessions_ THEN sessions_
    ELSE DictSet(sessions_, session_id, df)

\* DataLoader.store_data(session_id, df)
store_data(sessions_, session_id, df) == DictSet(sessions_, session_id, df)

\* DataLoader.delete_session(session_id)
delete_session(sessions_, session_id) ==
    IF session_id \in DOMAIN sessions_ THEN DictDel(sessions_, session_id)
    ELSE sessions_

\* DataLoader.list_sessions()
list_sessions(sessions_) == DOMAIN sessions_

\* SQLService.disconnect(session_id)
disconnect(connections_, session_id) ==
    IF session_id \in DOMAIN connections_
    THEN DictDel(connections_, session_id)
    ELSE connections_

Request(op, session_id, value) ==
    [op |-> op, session_id |-> session_id, value |-> value]

InitSessions ==
    /\ ChatIdle
    /\ ServiceIdle
    /\ AppIdle

\* POST /api/data/upload: the dataset goes to the session "default"
UploadData ==
    \E df \in Datasets :
        /\ sessions' = store_data(sessions, "default", df)
        /\ lastRequest' = Request("store", "default", df)
        /\ UNCHANGED <<chatVars, svcVars, build, connections, llm, profiling, run>>

\* POST /api/data/load-url and /api/data/load-path
LoadData ==
    \E id \in RequestSessionIds, df \in Datasets :
        /\ sessions' = store_data(sessions, SessionOf(id), df)
        /\ lastRequest' = Request("store", SessionOf(id), df)
        /\ UNCHANGED <<chatVars, svcVars, build, connections, llm, profiling, run>>

\* POST /api/sql/connect: SQLService.connect stores the connection when the
\* test query succeeds and stores nothing when it fails
ConnectSql ==
    \E id \in RequestSessionIds, c \in ConnectionStrings, ok \in BOOLEAN :
        /\ connections' = IF ok THEN DictSet(connections, SessionOf(id), c)
                          ELSE connections
        /\ lastRequest' = Request(IF ok THEN "connect" ELSE "connect_failed",
                                  SessionOf(id), c)
        /\ UNCHANGED <<chatVars, svcVars, build, sessions, llm, profiling, run>>

\* POST /api/sql/query: the result of a successful query is stored as the
\* dataset of the session
QuerySql ==
    \E id \in RequestSessionIds, df \in Datasets, ok \in BOOLEAN :
        /\ IF SessionOf(id) \in DOMAIN connections /\ ok
           THEN /\ sessions' = store_data(sessions, SessionOf(id), df)
                /\ lastRequest' = Request("store", SessionOf(id), df)
           ELSE /\ sessions' = sessions
                /\ lastRequest' = Request("query_failed", SessionOf(id), df)
        /\ UNCHANGED <<chatVars, svcVars, build, connections, llm, profiling, run>>

\* POST /api/sql/disconnect
DisconnectSql ==
    \E id \in RequestSessionIds \ {""} :
        /\ connections' = disconnect(connections, id)
        /\ lastRequest' = Request("disconnect", id, "")
        /\ UNCHANGED <<chatVars, svcVars, build, sessions, llm, profiling, run>>

\* DELETE /api/session/{session_id}
DeleteSession ==
    \E id \in RequestSessionIds \ {""} :
        /\ sessions' = delete_session(sessions, id)
        /\ lastRequest' = Request("delete", id, "")
        /\ UNCHANGED <<chatVars, svcVars, build, connections, llm, profiling, run>>

NextSessions ==
    \/ UploadData
    \/ LoadData
    \/ ConnectSql
    \/ QuerySql
    \/ DisconnectSql
    \/ DeleteSession

SpecSessions == InitSessions /\ [][NextSessions]_vars

SessionIds == {SessionOf(id) : id \in RequestSessionIds}

\* session t holds the same in both states of a step
SessionKept(t) ==
    /\ t \in DOMAIN sessions' <=> t \in DOMAIN sessions
    /\ t \in DOMAIN sessions => sessions'[t] = sessions[t]

\* C26: a session holds at most one dataset, the last one stored under its
\* id, and a store under one id leaves the dataset of every other id as it
\* was.
C26_LastStoreWins ==
    /\ [](lastRequest.op = "store" =>
              /\ lastRequest.session_id \in DOMAIN sessions
              /\ sessions[lastRequest.session_id] = lastRequest.value)
    /\ [][lastRequest'.op = "store" =>
              \A t \in SessionIds \ {lastRequest'.session_id} : SessionKept(t)]_vars

\* a second dataset stored under an id that held one, with another session
\* holding its own
C26_Witness ==
    /\ lastRequest.op = "store"
    /\ lastRequest.session_id = "s1"
    /\ sessions["s1"] = "d2"
    /\ "default" \in DOMAIN sessions
    /\ sessions["default"] = "d1"
    /\ "s1" \in DOMAIN connections

\* C27: after the deletion of session s neither a dataset nor a connection
\* is held for s and s is not listed.
C27_DeleteRemovesAll ==
    lastRequest.op = "delete" =>
        /\ lastRequest.session_id \notin DOMAIN sessions
        /\ lastRequest.session_id \notin DOMAIN connections
        /\ lastRequest.session_id \notin list_sessions(sessions)

\* ------------------------------------------------------------------------
\* Configuration of the completion client: LLMService.configure
\* ------------------------------------------------------------------------
\* the optional imports of llm_service.py 12-28 and the key variables of
\* the environment
Packages == {"openai", "anthropic", "itsai"}
KeyVariables == {"OPENAI_API_KEY", "ANTHROPIC_API_KEY"}

\* LLMService._setup_azure_client(): nothing is raised; the client is set
\* only when the ITSAI package is there and the constructors succeed
setup_azure_client(l, constructed) ==
    IF "itsai" \in l.packages /\ constructed
    THEN [l EXCEPT !.client = "azure"]
    ELSE l

\* LLMService.configure(provider, api_key): the service after the call;
\* given: api_key is a non-blank string; constructed: the Azure client
\* constructors raise nothing
configure(l, provider_, given, constructed) ==
    LET key == IF given THEN TRUE
               ELSE IF provider_ = "openai" THEN "OPENAI_API_KEY" \in l.env
               ELSE IF provider_ = "anthropic"
               THEN "ANTHROPIC_API_KEY" \in l.env
               ELSE l.api_key
        set == [l EXCEPT !.provider = provider_, !.api_key = key,
                         !.completion = "none"]
        raised == [set EXCEPT !.configured = "raised"]
        returned == [set EXCEPT !.configured = "returned"]
    IN  IF provider_ = "openai" /\ "openai" \in l.packages
        THEN IF ~key THEN raised ELSE [returned EXCEPT !.client = "openai"]
        ELSE IF provider_ = "anthropic" /\ "anthropic" \in l.packages
        THEN IF ~key THEN raised ELSE [returned EXCEPT !.client = "anthropic"]
        ELSE IF provider_ = "azure" /\ "openai" \in l.packages
        THEN setup_azure_client(returned, constructed)
        ELSE raised

\* get_analysis_code, lines 203-210, and the _call_ function it selects: the
\* call fails for an unknown provider or a missing client, and otherwise
\* goes to whatever client the service holds
completion_call(l) ==
    IF l.provider \notin KnownProviders THEN "unknown_provider"
    ELSE IF l.client = "none" THEN "no_client"
    ELSE "sent"

InitConfigure ==
    /\ ChatIdle
    /\ ServiceIdle
    /\ build = [phase |-> "idle"]
    /\ sessions = <<>>
    /\ connections = <<>>
    /\ lastRequest = [op |-> "none"]
    /\ llm \in {LLMService(p, e) : p \in SUBSET Packages, e \in SUBSET KeyVariables}
    /\ profiling = [phase |-> "idle"]
    /\ run = [pc |-> "idle"]

\* POST /api/config
Configure ==
    \E p \in Providers, given \in BOOLEAN, constructed \in BOOLEAN :
        /\ llm' = configure(llm, p, given, constructed)
        /\ UNCHANGED <<chatVars, svcVars, build, sessions, connections, lastRequest, profiling, run>>

\* a completion call of a later request
CompletionCall ==
    /\ llm.completion = "none"
    /\ llm' = [llm EXCEPT !.completion = completion_call(llm)]
    /\ UNCHANGED <<chatVars, svcVars, build, sessions, connections, lastRequest, profiling, run>>

NextConfigure ==
    \/ Configure
    \/ CompletionCall

SpecConfigure == InitConfigure /\ [][NextConfigure]_vars

\* C28: whenever configure returned normally, a client of the selected
\* provider is ready, and a later completion call does not fail for lack
\* of a configured client.
C28_ConfiguredMeansReady ==
    llm.configured = "returned" =>
        /\ llm.client = llm.provider
        /\ llm.completion # "no_client"

\* ------------------------------------------------------------------------
\* The generation requests of a chat() run
\* ------------------------------------------------------------------------
\* this step sends the retry request
RetrySent == pc = "regenerate" /\ pc' = "regenerating"

\* C29: the retry calls the generator with the original history followed by
\* exactly two turns, the assistant turn with the reply that failed and one
\* user turn that quotes the validation error, and leaves the original
\* history as it was.
C29_RetryHistory ==
    [][/\ history' = history
       /\ RetrySent =>
              LET h == inflight'[1].conversation_history
              IN  /\ Len(h) = Len(history) + 2
                  /\ SubSeq(h, 1, Len(history)) = history
                  /\ h[Len(h) - 1] = Turn("assistant", llm_response)
                  /\ h[Len(h)].role = "user"
                  /\ Contains(h[Len(h)].content.v, Fmt(validation_error))]_vars

\* a retry request in flight in a conversation that already had a turn
C29_Witness ==
    /\ pc = "regenerating"
    /\ history # <<>>
    /\ Len(inflight) = 1
    /\ Len(inflight[1].conversation_history) = Len(history) + 2
    /\ inflight[1].conversation_history[Len(history) + 1].role = "assistant"
    /\ validation_error = Some(<<"c", "o", "l">>)

\* the planner gave a spec: a decoded value other than null
SpecProduced == ~query_spec.isNone

\* C30 as stated: every generation request of a run carries the spec the
\* planner produced, and none when there is no spec.
C30_SpecInEveryRequest ==
    \A i \in DOMAIN genReqs : genReqs[i].spec = query_spec

\* C30: every generation request of a run, the first and the retry, carries
\* the spec the planner produced when that spec is truthy (a non-empty
\* object or list, a non-empty string, a non-zero number, true); when the
\* spec is absent or falsy none is embedded.
C30_TruthySpecInEveryRequest ==
    \A i \in DOMAIN genReqs :
        genReqs[i].spec = IF SpecTruthy(query_spec) THEN query_spec ELSE NoSpec

\* both requests of a run with a retry carry the planner's spec
C30_Witness ==
    /\ Len(genReqs) = 2
    /\ SpecTruthy(query_spec)
    /\ genReqs[1].spec = query_spec
    /\ genReqs[2].spec = query_spec
    /\ genReqs[2].user_message = RetryUserMessage
\* ------------------------------------------------------------------------
\* C35, C38, C40: the outcome of a run
\* ------------------------------------------------------------------------
\* execute_safely ran and reported failure
ExecutionFailed == calls.exec = 1 /\ ~execution_result.success

\* C35 as stated: when execute_safely reports failure no narrative is
\* requested and the narrative of the response is none, also when the
\* failure is answered as out of remit.
C35_NoNarrativeAfterFailure ==
    ExecutionFailed =>
        /\ calls.narr = 0
        /\ narrReqs = <<>>
        /\ narrative = None
        /\ Returned => resp.narrative = None

\* C38 as stated: a run on a session without dataset is answered with
\* status 404 and calls no planner, enrichment, generation or execution.
C38_NoDataIsNotFound ==
    (Done /\ ~hasData) =>
        /\ resp.status = 404
        /\ calls.plan = 0
        /\ calls.enrich = 0
        /\ calls.gen = 0
        /\ calls.exec = 0

\* the calls made in a run without dataset
C38_NoDataMakesNoCall ==
    ~hasData => \A c \in DOMAIN calls : calls[c] = 0
\* the runs of a first request (no history) with a message that asks for
\* a narrative or for population data
InitRun ==
    /\ Init
    /\ history = <<>>
    /\ message \in {MsgTrend, MsgPerCapita}

\* the positions of chat()
Positions ==
    {"start", "enrich", "plan", "profile", "generate", "generating",
     "detect", "validate", "regenerate", "regenerating", "revalidate",
     "execute", "normalize", "narrate", "respond", "done"}

\* chat() leaves the position it is at
Advance == pc # "done" /\ pc' \in Positions \ {pc}

\* every capability call of a run returns or raises, and chat() goes on:
\* a run that has not ended does not stay where it is for ever
SpecFair == InitRun /\ [][Next]_vars /\ WF_pc(Advance)

\* a run that has not ended can take a step
NoDeadlock == ~Done => ENABLED Next

\* the four outcomes of a run
FatalFailure == Done /\ resp.status = 500
RefusalResponse == Returned /\ calls.val = 0
ValidationFailureResponse == Returned /\ calls.val > 0 /\ calls.exec = 0
ExecutedResponse == Returned /\ calls.exec = 1

Outcomes ==
    {o \in {"fatal", "refusal", "validation", "executed"} :
        \/ o = "fatal" /\ FatalFailure
        \/ o = "refusal" /\ RefusalResponse
        \/ o = "validation" /\ ValidationFailureResponse
        \/ o = "executed" /\ ExecutedResponse}

\* the response fields that tell the outcomes apart
OutcomeShape ==
    /\ RefusalResponse =>
          /\ resp.code = None
          /\ resp.execution_success
          /\ calls.gen = 1
    /\ ValidationFailureResponse =>
          /\ ~resp.execution_success
          /\ resp.execution_result = None
          /\ BothInvalid
    /\ ExecutedResponse => resp.code \in accepted

CallBudget ==
    /\ calls.plan <= 1
    /\ calls.gen <= 2
    /\ calls.exec <= 1
    /\ calls.narr <= 1

\* C40: every run ends, in exactly one of the four outcomes, which then
\* stays as it is, after at most one planner call, two generation calls,
\* one execution and one narrative call.
C40_RunTerminates ==
    /\ <>Done
    /\ [](pc \in Positions /\ CallBudget /\ OutcomeShape)
    /\ [](Done => Cardinality(Outcomes) = 1)
    /\ [](~Done => Outcomes = {})
    /\ [][Done => UNCHANGED vars]_vars

\* a run that used every call of the budget and returned
C40_Witness ==
    /\ ExecutedResponse
    /\ calls.plan = 1
    /\ calls.gen = 2
    /\ calls.exec = 1
    /\ calls.narr = 1
\* ------------------------------------------------------------------------
\* C32: the enrichment and its descriptor
\* ------------------------------------------------------------------------
\* the run has a dataset and is past the enrichment step
PastEnrichment == hasData /\ pc \notin {"start", "enrich"}

EnrichmentAsRequested ==
    /\ calls.enrich <= 1
    /\ calls.enrich = 1 => message \in PopulationMessages
    /\ PastEnrichment =>
          (calls.enrich = 1 <=> message \in PopulationMessages)

\* the schema of every generation request is the profiled one, and it
\* describes df_pop exactly when df_pop has rows
DescriptorAsTable ==
    /\ genReqs # <<>> => calls.profile = 1
    /\ calls.exec = 1 => calls.profile = 1
    /\ calls.profile = 1 => (schema.aux_dataframes <=> df_pop = "loaded")
    /\ calls.profile = 0 => ~schema.aux_dataframes

\* C32: a run that has a dataset calls build_population_for_acled exactly
\* when the message holds a population keyword; the schema handed to the
\* generator describes df_pop exactly when df_pop is not empty; and df_pop
\* is not reassigned after the enrichment, so the table execute_safely
\* receives is the one the schema describes.
C32_EnrichmentAndDescriptor ==
    /\ [](EnrichmentAsRequested /\ DescriptorAsTable)
    /\ [][pc # "enrich" => df_pop' = df_pop]_vars

\* an executed run whose schema described a loaded population table
C32_Witness ==
    /\ Returned
    /\ calls.exec = 1
    /\ calls.enrich = 1
    /\ df_pop = "loaded"
    /\ schema.aux_dataframes
\* ------------------------------------------------------------------------
\* The column profile of chat(): main.py 355-362 and
\* DataLoaderService.get_column_profile (data_loader.py 133-154)
\* ------------------------------------------------------------------------
ColEventDate == << "e", "v", "e", "n", "t", "_", "d", "a", "t", "e" >>
ColEventIdCnty == << "e", "v", "e", "n", "t", "_", "i", "d", "_", "c", "n", "t", "y" >>
ColFatalities == << "f", "a", "t", "a", "l", "i", "t", "i", "e", "s" >>
ColActor1 == << "a", "c", "t", "o", "r", "1" >>
ColActor2 == << "a", "c", "t", "o", "r", "2" >>
ColAdmin2 == << "a", "d", "m", "i", "n", "2" >>
ColEventType == << "e", "v", "e", "n", "t", "_", "t", "y", "p", "e" >>
ColSubEventType == << "s", "u", "b", "_", "e", "v", "e", "n", "t", "_", "t", "y", "p", "e" >>
ColInter1 == << "i", "n", "t", "e", "r", "1" >>
ColInter2 == << "i", "n", "t", "e", "r", "2" >>
ColInteraction == << "i", "n", "t", "e", "r", "a", "c", "t", "i", "o", "n" >>
ColCountry == << "c", "o", "u", "n", "t", "r", "y" >>
ColAdmin1 == << "a", "d", "m", "i", "n", "1" >>
ColNotes == << "n", "o", "t", "e", "s" >>
ColRegion == << "r", "e", "g", "i", "o", "n" >>

\* main.py 359: the columns profiled whenever the dataset has them
CORE_COLUMNS ==
    <<ColEventDate, ColEventIdCnty, ColFatalities, ColActor1, ColActor2,
      ColAdmin2>>

\* data_loader.py 108: key_cols, the columns get_schema lists values of
KEY_COLUMNS ==
    <<ColEventType, ColSubEventType, ColInter1, ColInter2, ColInteraction,
      ColCountry, ColAdmin1>>

\* what the body of the try of get_column_profile does on a column: its
\* values are counted ("plain"), it has more distinct values than top_n
\* ("wide"), or an operation of the try raises ("failing")
ColumnKinds == {"plain", "wide", "failing"}

\* the datasets of a checked call: column name -> kind of the column
DatasetPool == {ColEventDate, ColFatalities, ColCountry, ColAdmin1, ColNotes}
ProfiledDatasets == UNION {[S -> ColumnKinds] : S \in SUBSET DatasetPool}

JStr(t) == JVal("string", t, <<>>, <<>>)
JNum(t) == JVal("number", t, <<>>, <<>>)
JArr(items) == JVal("array", <<>>, <<>>, items)
SpecWithGroupby(g) == Some(JVal("object", <<>>, <<KeyGroupby>>, <<g>>))

\* specs whose groupby is a list of column names, or that have none
NamedGroupbySpecs ==
    { NoSpec,
      Some(JVal("object", <<>>, <<>>, <<>>)),
      SpecWithGroupby(JNull),
      SpecWithGroupby(JStr(ColCountry)),
      SpecWithGroupby(JArr(<<>>)),
      SpecWithGroupby(JArr(<<JStr(ColNotes)>>)),
      SpecWithGroupby(JArr(<<JStr(ColCountry), JStr(ColRegion)>>)),
      SpecWithGroupby(JArr(<<JStr(ColNotes), JStr(ColActor1), JStr(ColNotes)>>)) }

\* specs the planner can also return: a groupby entry that is a number or
\* a list, a spec that is a list
OtherSpecs ==
    { SpecWithGroupby(JArr(<<JNum(<<"1">>)>>)),
      SpecWithGroupby(JArr(<<JArr(<<JStr(ColCountry)>>)>>)),
      Some(JArr(<<JNum(<<"1">>)>>)) }

ProfiledSpecs == NamedGroupbySpecs \cup OtherSpecs

\* data_loader.py 108-116: the keys of schema["value_info"]
value_info(df) == {c \in Range(KEY_COLUMNS) : c \in DOMAIN df}

\* the entries of query_spec["groupby"] when it is a list (main.py 357)
groupby(spec) ==
    IF SpecTruthy(spec) /\ spec.v.kind = "object"
       /\ ObjGet(spec.v, KeyGroupby).kind = "array"
    THEN Range(ObjGet(spec.v, KeyGroupby).items)
    ELSE {}

\* main.py 356-361: columns_to_profile, as the set of its entries
columns_to_profile(df, spec) ==
    LET catalog == {JStr(c) : c \in value_info(df)}
        merged  == catalog \cup groupby(spec)
        core    == {JStr(c) : c \in {k \in Range(CORE_COLUMNS) : k \in DOMAIN df}}
    IN  merged \cup core

\* col in df.columns, for an entry of columns_to_profile
InDataset(df, col) == col.kind = "string" /\ col.text \in DOMAIN df

\* data_loader.py 143-153: the entry of one column
ColumnEntry(kind) ==
    [dtype |-> "object",
     value_counts |-> CASE kind = "plain" -> "counts"
                        [] kind = "wide" -> "top_values"
                        [] OTHER -> "empty"]

ProfileResult(raised, columns, profile) ==
    [raised |-> raised, columns |-> columns, profile |-> profile]

\* get_column_profile without the try/except of 143-153
get_column_profile_FailFast(df, column_list) ==
    LET present == {c.text : c \in {x \in column_list : InDataset(df, x)}}
    IN  IF \E c \in present : df[c] = "failing"
        THEN ProfileResult("Exception", column_list, <<>>)
        ELSE ProfileResult("", column_list,
                           [c \in present |-> ColumnEntry(df[c])])

\* DataLoaderService.get_column_profile(df, column_list)
get_column_profile(df, column_list) ==
    LET present == {c.text : c \in {x \in column_list : InDataset(df, x)}}
    IN  ProfileResult("", column_list,
                      [c \in present |-> ColumnEntry(df[c])])

\* main.py 355-362: the expansion of the profiled columns and the profile
column_profile(df, spec) ==
    IF ProfileError(spec) # ""
    THEN ProfileResult(ProfileError(spec), {}, <<>>)
    ELSE get_column_profile(df, columns_to_profile(df, spec))

InitProfile ==
    /\ ChatIdle
    /\ ServiceIdle
    /\ build = [phase |-> "idle"]
    /\ sessions = <<>>
    /\ connections = <<>>
    /\ lastRequest = [op |-> "none"]
    /\ llm = LLMService({}, {})
    /\ run = [pc |-> "idle"]
    /\ profiling \in [phase : {"called"}, df : ProfiledDatasets,
                      query_spec : ProfiledSpecs,
                      result : {ProfileResult("", {}, <<>>)}]

ProfileColumns ==
    /\ profiling.phase = "called"
    /\ profiling' = [profiling EXCEPT
                        !.phase = "done",
                        !.result = column_profile(profiling.df,
                                                  profiling.query_spec)]
    /\ UNCHANGED <<chatVars, svcVars, build, sessions, connections,
                   lastRequest, llm, run>>

NextProfile == ProfileColumns

SpecProfile == InitProfile /\ [][NextProfile]_vars

\* ------------------------------------------------------------------------
\* C31: the profiled columns
\* ------------------------------------------------------------------------
\* the names the profile is asked for: the groupby columns of the spec, the
\* core columns and the columns of the value catalog
RequestedNames(df, spec) ==
    {c.text : c \in groupby(spec)}
        \cup Range(CORE_COLUMNS) \cup value_info(df)

\* C31: for a spec whose groupby is absent or a list of column names, the
\* columns handed to get_column_profile are among the groupby columns, the
\* core columns and the value-catalog columns and hold each of them that
\* the dataset has; the profile has an entry for exactly the requested
\* columns that exist in the dataset; and the call does not fail, a column
\* whose values cannot be counted getting an empty value_counts.
C31_ProfileOfExistingColumns ==
    (profiling.phase = "done" /\ profiling.query_spec \in NamedGroupbySpecs) =>
        LET df == profiling.df
            r == profiling.result
            requested == RequestedNames(df, profiling.query_spec)
        IN  /\ r.raised = ""
            /\ {c.text : c \in r.columns} \subseteq requested
            /\ requested \cap DOMAIN df \subseteq {c.text : c \in r.columns}
            /\ DOMAIN r.profile = requested \cap DOMAIN df
            /\ \A c \in DOMAIN r.profile :
                   r.profile[c].value_counts = "empty" <=> df[c] = "failing"

\* a profile over a dataset that lacks a groupby column and a core column
\* and has a column whose values cannot be counted
C31_Witness ==
    /\ profiling.phase = "done"
    /\ profiling.query_spec =
           SpecWithGroupby(JArr(<<JStr(ColCountry), JStr(ColRegion)>>))
    /\ DOMAIN profiling.df = {ColCountry, ColFatalities, ColNotes}
    /\ profiling.df[ColCountry] = "failing"
    /\ DOMAIN profiling.result.profile = {ColCountry, ColFatalities}
    /\ profiling.result.profile[ColCountry].value_counts = "empty"
\* ------------------------------------------------------------------------
\* C33, C34: the rows of a paginated fetch
\* ------------------------------------------------------------------------
PagesOf(replies) == [i \in DOMAIN replies |-> replies[i].page]

\* the server answered every request of the call, each with another slice
\* of the data (it honours the offset)
OffsetHonoured(f) ==
    /\ Len(f.replies) >= 1
    /\ \A i \in DOMAIN f.replies : ~f.replies[i].raised
    /\ \A i, j \in DOMAIN f.replies :
           i # j => f.replies[i].page # f.replies[j].page

\* C33 as stated: when the server honours the offset, the rows of the
\* fetch are the rows of every page received, in order and once each, a
\* call that returns before its 12th request returns on a page shorter
\* than the page size, and no request follows such a page.
C33_EveryPageUpToShortPage ==
    \A p \in Callers :
        LET f == fetch[p]
        IN  OffsetHonoured(f) =>
              /\ \A i \in 1..(Len(f.replies) - 1) :
                     f.replies[i].page.len = PAGE_SIZE
              /\ f.rows = SelectSeq(PagesOf(f.replies), LAMBDA g : g.len > 0)
              /\ (f.pc = "returned" /\ f.requests < MAX_PAGES_PER_QUERY) =>
                     f.replies[Len(f.replies)].page.len < PAGE_SIZE

\* the call ended on a page that has rows and left these rows out: the
\* repeated-page guard stopped it
GuardFired(f) ==
    /\ f.pc = "returned"
    /\ Len(f.replies) >= 2
    /\ ~f.replies[Len(f.replies)].raised
    /\ f.replies[Len(f.replies)].page.len > 0
    /\ Len(f.rows) < Len(f.replies)

\* C34 as stated: the guard stops a call only on a page equal to the page
\* before it, and the rows of the call then hold that page once.
C34_GuardOnlyOnRepeat ==
    \A p \in Callers :
        LET f == fetch[p]
            n == Len(f.replies)
        IN  GuardFired(f) =>
              /\ f.replies[n].page = f.replies[n - 1].page
              /\ f.rows = PagesOf(SubSeq(f.replies, 1, n - 1))

\* the guard fired on a page the server repeated
GuardOnRepeat ==
    \E p \in Callers :
        /\ GuardFired(fetch[p])
        /\ fetch[p].replies[Len(fetch[p].replies)].page
               = fetch[p].replies[Len(fetch[p].replies) - 1].page
\* ------------------------------------------------------------------------
\* C37: a configure call that fails
\* ------------------------------------------------------------------------
\* this step is a call of configure() that raised
ConfigureRaised == llm'.completion = "none" /\ llm'.configured = "raised"

\* C37 as stated: a configure call that raises leaves provider, credential
\* and client as they were, and the provider that selects the completion
\* call is always the one the client held was built for.
C37_FailedConfigureChangesNothing ==
    /\ [][ConfigureRaised =>
              /\ llm'.provider = llm.provider
              /\ llm'.api_key = llm.api_key
              /\ llm'.client = llm.client]_vars
    /\ [](llm.client # "none" => llm.client = llm.provider)
\* ------------------------------------------------------------------------
\* The indicator builder called with named countries
\* ------------------------------------------------------------------------
\* the codes of the requested countries that have one
RequestedCodes ==
    {c.v : c \in {Iso3Of(build.call.requested_countries.v[i]) :
                      i \in DOMAIN build.call.requested_countries.v} \ {None}}

\* the indicator builder chose countries from a list of requested ones
WdiForNamedCountries ==
    /\ build.phase = "done"
    /\ build.call.builder = "wdi"
    /\ ~resolve_indicator_from_message(build.call.user_message).isNone
    /\ CountriesNamed

\* C39: when the indicator builder is given requested countries, every
\* fetch it issues carries the code of one of them and every row of its
\* table has such a code; when none of them has a code, it issues no fetch
\* for all countries.
C39_OnlyRequestedCodes ==
    WdiForNamedCountries =>
        /\ \A i \in DOMAIN build.result.fetched :
               /\ ~build.result.fetched[i].isNone
               /\ build.result.fetched[i].v \in RequestedCodes
        /\ \A k \in DOMAIN build.result.table :
               build.result.table[k].iso3.v \in RequestedCodes

\* the same for calls in which at least one requested country has a code
C39_OnlyRequestedCodesWhenResolved ==
    (WdiForNamedCountries /\ RequestedCodes # {}) =>
        \A i \in DOMAIN build.result.fetched :
            /\ ~build.result.fetched[i].isNone
            /\ build.result.fetched[i].v \in RequestedCodes
\* ------------------------------------------------------------------------
\* A chat run interleaved with the endpoints that store and delete datasets
\* ------------------------------------------------------------------------
\* run: the position of one call of chat() between its awaits, its session
\* id, its local df (main.py 334) and, for each consumer of a dataset, the
\* dataset it was called with ("": not called)
NotCalled == ""

RunAt(pc_, session_id, df, schema_of, enrich_of, profile_of, exec_of, status) ==
    [pc |-> pc_, session_id |-> session_id, df |-> df,
     schema_of |-> schema_of, enrich_of |-> enrich_of,
     profile_of |-> profile_of, exec_of |-> exec_of, status |-> status]

\* DataLoader.get_data(session_id): self.sessions.get(session_id)
get_data(sessions_, session_id) ==
    IF session_id \in DOMAIN sessions_ THEN Some(sessions_[session_id])
    ELSE None

RunVarsOnly ==
    UNCHANGED <<chatVars, svcVars, build, sessions, connections, lastRequest,
                llm, profiling>>

\* main.py 331-353: the session id, the read of the dataset, the 404 that
\* the handler's own except turns into a 500, get_schema(df), the
\* enrichment build_population_for_acled(df) when the message asks for it,
\* up to the await of the planner
RunStart ==
    \E id \in RequestSessionIds, message_ \in {MsgTrend, MsgPerCapita} :
        LET session_id == SessionOf(id)
            df == get_data(sessions, session_id)
        IN  /\ run.pc = "idle"
            /\ run' = IF df.isNone
                      THEN RunAt("done", session_id, df, NotCalled, NotCalled,
                                 NotCalled, NotCalled, 500)
                      ELSE RunAt("planning", session_id, df, df.v,
                                 IF needs_population_data(message_)
                                 THEN df.v ELSE NotCalled,
                                 NotCalled, NotCalled, 0)
            /\ RunVarsOnly

\* main.py 353-376: the planner has answered; get_column_profile(df, ...),
\* up to the await of the first generation
RunProfile ==
    /\ run.pc = "planning"
    /\ run' = [run EXCEPT !.pc = "generating", !.profile_of = run.df.v]
    /\ RunVarsOnly

\* the df argument of execute_safely(code, df, df_pop=df_pop), main.py 427
execute_df_Reread(r, sessions_) ==
    LET df == get_data(sessions_, r.session_id)
    IN  IF df.isNone THEN "none" ELSE df.v

execute_df(r, sessions_) == r.df.v

\* main.py 427-449: execute_safely, then the await of the narrative when
\* the execution succeeded, or the response
RunExecute(r, narrate) ==
    [r EXCEPT !.pc = IF narrate THEN "narrating" ELSE "done",
              !.exec_of = execute_df(r, sessions),
              !.status = IF narrate THEN 0 ELSE 200]

\* main.py 376-427: the first generation has answered: a refusal, code
\* that passes validation, code that fails it (up to the await of the
\* second generation), or an exception
RunGenerated ==
    \E outcome \in {"refusal", "valid", "invalid", "raise"},
       narrate \in BOOLEAN :
        /\ run.pc = "generating"
        /\ run' = CASE outcome = "refusal" ->
                           [run EXCEPT !.pc = "done", !.status = 200]
                    [] outcome = "valid" -> RunExecute(run, narrate)
                    [] outcome = "invalid" ->
                           [run EXCEPT !.pc = "regenerating"]
                    [] outcome = "raise" ->
                           [run EXCEPT !.pc = "done", !.status = 500]
        /\ RunVarsOnly

\* main.py 408-427: the second generation has answered
RunRegenerated ==
    \E outcome \in {"valid", "invalid", "raise"}, narrate \in BOOLEAN :
        /\ run.pc = "regenerating"
        /\ run' = CASE outcome = "valid" -> RunExecute(run, narrate)
                    [] outcome = "invalid" ->
                           [run EXCEPT !.pc = "done", !.status = 200]
                    [] outcome = "raise" ->
                           [run EXCEPT !.pc = "done", !.status = 500]
        /\ RunVarsOnly

\* main.py 445-460: the narrative call has answered or raised
RunNarrated ==
    \E ok \in BOOLEAN :
        /\ run.pc = "narrating"
        /\ run' = [run EXCEPT !.pc = "done",
                              !.status = IF ok THEN 200 ELSE 500]
        /\ RunVarsOnly

\* the steps of the run and the endpoints that call store_data and
\* delete_session on the datasets (the SQL query endpoint stores through the
\* same store_data once a connection exists)
NextRunSessions ==
    \/ RunStart
    \/ RunProfile
    \/ RunGenerated
    \/ RunRegenerated
    \/ RunNarrated
    \/ UploadData
    \/ LoadData
    \/ DeleteSession

SpecRunSessions == InitSessions /\ [][NextRunSessions]_vars

\* the run holds a dataset: it is past the read and was not turned away
RunHasData == run.pc # "idle" /\ ~run.df.isNone

\* the dataset of the run's session changed or went away during the run
SessionChanged == get_data(sessions, run.session_id) # run.df

\* C36: a run reads the dataset of its session once, at its start, and
\* get_schema, the enrichment, get_column_profile and execute_safely are
\* all called with that dataset, whatever is stored under or deleted from
\* the session while the run waits for a model call.
C36_RunKeepsItsDataset ==
    /\ [](RunHasData =>
              /\ run.schema_of = run.df.v
              /\ run.enrich_of \in {NotCalled, run.df.v}
              /\ run.profile_of \in {NotCalled, run.df.v}
              /\ run.exec_of \in {NotCalled, run.df.v})
    /\ [][run.pc = "idle" /\ run'.pc # "idle" =>
              run'.df = get_data(sessions, run'.session_id)]_vars
    /\ [][run.pc # "idle" =>
              run'.df = run.df /\ run'.session_id = run.session_id]_vars

\* a run on s1 profiled and executed on d1 after d2 was stored under s1
C36_Witness ==
    /\ run.pc = "done"
    /\ run.session_id = "s1"
    /\ run.df = Some("d1")
    /\ run.enrich_of = "d1"
    /\ run.profile_of = "d1"
    /\ run.exec_of = "d1"
    /\ SessionChanged
    /\ lastRequest = Request("store", "s1", "d2")

====
